---- MODULE Spec2Model ----
(***************************************************************************)
(* Verification model of the MrCashondo V2 trading bot.                    *)
(*                                                                         *)
(* Units.  Floating-point quantities of the program are kept exact as      *)
(* integers: prices in points of the symbol (the Stop Adjuster part works  *)
(* in thousandths of a point so that the factors 0.05, 0.90, 1.10 and 1.5  *)
(* stay exact), volumes in hundredths of a lot, money in cents and         *)
(* percentages in basis points.                                            *)
(*                                                                         *)
(* The module holds several specifications, one per component:             *)
(*   SpecSizer   - RiskManager.calculate_position_size and the sizing      *)
(*                 step of MrCashondoBot.process_signal                    *)
(*   SpecStops   - MT5Connector.validate_and_adjust_stops and              *)
(*                 RiskManager.adjust_stops                                *)
(*   SpecLife    - RiskManager.manage_partial_and_trailing, called once    *)
(*                 per monitoring cycle by MrCashondoBot.monitor_positions *)
(*   SpecMonitor - MrCashondoBot.monitor_position (break-even, trailing)   *)
(*   SpecGuard   - the exposure decisions: step 4 of process_signal,       *)
(*                 RiskManager.validate_exposure_and_margin and            *)
(*                 RiskManager.check_exposure_limit                        *)
(*   SpecBot     - MrCashondoBot.start_trading: the scan loop with         *)
(*                 process_signal, and the subscription monitor thread     *)
(*   SpecPipeline - MrCashondoBot.process_signal on one signal, step by    *)
(*                 step, with what it leaves in the tables and at the      *)
(*                 broker                                                  *)
(*   SpecScan    - one cycle of MrCashondoBot.scan_and_execute: the loop   *)
(*                 of SignalGenerator.scan_all_symbols over symbols and    *)
(*                 timeframes, then process_signal on every signal found   *)
(*   SpecLoop    - the while loop of MrCashondoBot.start_trading with its  *)
(*                 exception handler and its sleeps                        *)
(***************************************************************************)
EXTENDS Integers, Sequences, FiniteSets, TLC

VARIABLES
    szIn,      \* arguments of one Position Sizer call
    szOut,     \* what the call returned
    stIn,      \* arguments of one Stop Adjuster call
    stOut,     \* what the call returned
    lcPos,     \* lifecycle manager: the entry of open_positions it is called with
    lcBroker,  \* lifecycle manager: the broker_api object and the position it holds
    lcCalls,   \* lifecycle manager: broker calls issued so far
    lcCycle,   \* lifecycle manager: monitoring cycles run, and how the last one ended
    mpPos,     \* monitor_position: the tracked signal of the position
    mpSl,      \* monitor_position: the position's stop at the broker
    mpMods,    \* monitor_position: stop modifications sent in the last cycle
    mpCycle,   \* monitor_position: monitoring cycles run
    gdIn,      \* exposure guard: the proposed order and the account
    gdOut,     \* exposure guard: the decision taken
    bNow,      \* bot: the clock, in minutes
    bAccount,  \* bot: the MT5 terminal: the account and what it knows of the symbols
    bSignals,  \* bot: the signals table of the trade database
    bTrades,   \* bot: the trades table of the trade database
    bBroker,   \* bot: orders the broker accepted and has not closed
    bRunning,  \* bot: self.running
    bMain,     \* bot: where the main thread is, and the signals of its scan
    bMonitor,  \* bot: the subscription monitor thread
    plIn,      \* pipeline: one signal, the account, the terminal and the signals table
    plOut,     \* pipeline: what process_signal did with the signal
    scScan,    \* scan cycle: where scan_and_execute is, what it found and what it processed
    lpLoop,    \* trading loop: iterations run, how each ended and how long the loop slept after it
    sgCall,    \* one call of the signal scorer or of analyze_market_data: its inputs and result
    rkState,   \* the RiskManager's counters and the last accessor call with its result
    vtTrade,   \* VirtualTrade: a virtual trade and the clock of its updates
    shLoop     \* process_signal: the locals of its volume-shrink loop

sizerVars == <<szIn, szOut>>
stopVars == <<stIn, stOut>>
lifeVars == <<lcPos, lcBroker, lcCalls, lcCycle>>
monVars == <<mpPos, mpSl, mpMods, mpCycle>>
guardVars == <<gdIn, gdOut>>
botVars == <<bNow, bAccount, bSignals, bTrades, bBroker, bRunning, bMain, bMonitor>>
pipeVars == <<plIn, plOut>>
scanVars == <<scScan>>
loopVars == <<lpLoop>>
scorerVars == <<sgCall>>
riskVars == <<rkState>>
virtualVars == <<vtTrade>>
shrinkVars == <<shLoop>>
vars == <<sizerVars, stopVars, lifeVars, monVars, guardVars, botVars, pipeVars, scanVars, loopVars, scorerVars, riskVars, virtualVars, shrinkVars>>

\* What each specification leaves untouched
NotSizer == <<stopVars, lifeVars, monVars, guardVars, botVars, pipeVars, scanVars, loopVars, scorerVars, riskVars, virtualVars, shrinkVars>>
NotStops == <<sizerVars, lifeVars, monVars, guardVars, botVars, pipeVars, scanVars, loopVars, scorerVars, riskVars, virtualVars, shrinkVars>>
NotLife == <<sizerVars, stopVars, monVars, guardVars, botVars, pipeVars, scanVars, loopVars, scorerVars, riskVars, virtualVars, shrinkVars>>
NotMonitor == <<sizerVars, stopVars, lifeVars, guardVars, botVars, pipeVars, scanVars, loopVars, scorerVars, riskVars, virtualVars, shrinkVars>>
NotGuard == <<sizerVars, stopVars, lifeVars, monVars, botVars, pipeVars, scanVars, loopVars, scorerVars, riskVars, virtualVars, shrinkVars>>
NotBot == <<sizerVars, stopVars, lifeVars, monVars, guardVars, pipeVars, scanVars, loopVars, scorerVars, riskVars, virtualVars, shrinkVars>>
NotPipeline == <<sizerVars, stopVars, lifeVars, monVars, guardVars, botVars, scanVars, loopVars, scorerVars, riskVars, virtualVars, shrinkVars>>
NotScan == <<sizerVars, stopVars, lifeVars, monVars, guardVars, botVars, pipeVars, loopVars, scorerVars, riskVars, virtualVars, shrinkVars>>
NotLoop == <<sizerVars, stopVars, lifeVars, monVars, guardVars, botVars, pipeVars, scanVars, scorerVars, riskVars, virtualVars, shrinkVars>>
NotScorer == <<sizerVars, stopVars, lifeVars, monVars, guardVars, botVars, pipeVars, scanVars, loopVars, riskVars, virtualVars, shrinkVars>>
NotRisk == <<sizerVars, stopVars, lifeVars, monVars, guardVars, botVars, pipeVars, scanVars, loopVars, scorerVars, virtualVars, shrinkVars>>
NotVirtual == <<sizerVars, stopVars, lifeVars, monVars, guardVars, botVars, pipeVars, scanVars, loopVars, scorerVars, riskVars, shrinkVars>>
NotShrink == <<sizerVars, stopVars, lifeVars, monVars, guardVars, botVars, pipeVars, scanVars, loopVars, scorerVars, riskVars, virtualVars>>

\* The components a specification does not run
StopsUnused == stIn = "unused" /\ stOut = "unused"
SizerUnused == szIn = "unused" /\ szOut = "unused"
LifeUnused == lcPos = "unused" /\ lcBroker = "unused" /\ lcCalls = "unused" /\ lcCycle = "unused"
MonitorUnused == mpPos = "unused" /\ mpSl = "unused" /\ mpMods = "unused" /\ mpCycle = "unused"
GuardUnused == gdIn = "unused" /\ gdOut = "unused"
PipelineUnused == plIn = "unused" /\ plOut = "unused"
ScanUnused == scScan = "unused"
LoopUnused == lpLoop = "unused"
ScorerUnused == sgCall = "unused"
RiskUnused == rkState = "unused"
VirtualUnused == vtTrade = "unused"
ShrinkUnused == shLoop = "unused"
BotUnused ==
    /\ bNow = "unused" /\ bAccount = "unused" /\ bSignals = "unused" /\ bTrades = "unused"
    /\ bBroker = "unused" /\ bRunning = "unused" /\ bMain = "unused" /\ bMonitor = "unused"

----------------------------------------------------------------------------
(* Arithmetic helpers *)

Min(a, b) == IF a <= b THEN a ELSE b
Max(a, b) == IF a >= b THEN a ELSE b
Abs(x) == IF x < 0 THEN -x ELSE x

\* Python's round(): n/d to the nearest integer, ties to the even one (d > 0).
RoundHalfEven(n, d) ==
    LET q == n \div d
        r == n % d
    IN  IF 2 * r < d THEN q
        ELSE IF 2 * r > d THEN q + 1
        ELSE IF q % 2 = 0 THEN q ELSE q + 1

----------------------------------------------------------------------------
(* Symbols and what MT5Connector.get_symbol_info reports for them *)

\* 'JPY' in symbol
IsJpySymbol(symbol) == symbol \in {"USDJPY"}
\* any(metal in symbol for metal in ['XAU', 'XAG', 'GOLD', 'SILVER'])
IsMetalSymbol(symbol) == symbol \in {"XAUUSD"}

\* The size of one point of the symbol, in units of 0.00001 of price.
PointMicro(symbol) ==
    IF IsJpySymbol(symbol) THEN 100
    ELSE IF IsMetalSymbol(symbol) THEN 1000
    ELSE 1

\* pip_size: 0.01 for JPY pairs, 0.1 for metals, 0.0001 otherwise
\* (in units of 0.00001 of price).
PipSizeMicro(symbol) ==
    IF IsJpySymbol(symbol) THEN 1000
    ELSE IF IsMetalSymbol(symbol) THEN 10000
    ELSE 10

\* The dict of get_symbol_info: volumes in centilots, tick_value in cents,
\* point = 1 because prices are counted in points.
SymbolInfo(symbol, min_volume, volume_step, tick_value) ==
    [ symbol        |-> symbol,
      point         |-> 1,
      contract_size |-> IF IsMetalSymbol(symbol) THEN 100 ELSE 100000,
      leverage      |-> 100,
      min_volume    |-> min_volume,
      max_volume    |-> 10000,
      volume_step   |-> volume_step,
      tick_value    |-> tick_value ]

----------------------------------------------------------------------------
(* Position Sizer: risk_config.py, RiskManager *)

RiskModes == {"fixed_usd", "percent_margin"}

\* risk_config.RISK_MODE as shipped
RISK_MODE == "percent_margin"

\* risk_config.FIXED_RISK_USD = 1.0, in cents
FIXED_RISK_USD == 100

\* min(self.risk_params.max_risk_per_trade, 0.01): the 1 % cap, in basis points
HardCapBp == 100

\* A function that returned None
NoPositionSize ==
    [ kind |-> "None", volume |-> 0, risk_amount |-> 0, risk_percentage |-> 0,
      pip_value |-> 0, stop_loss_pips10 |-> 0 ]

PositionSize(volume, risk_amount, pip_value, stop_loss_pips10) ==
    [ kind |-> "PositionSize", volume |-> volume, risk_amount |-> risk_amount,
      risk_percentage |-> 0, pip_value |-> pip_value,
      stop_loss_pips10 |-> stop_loss_pips10 ]

\* RiskManager.calculate_risk_amount(balance, risk_pct): cents, basis points
calculate_risk_amount(balance, risk_pct) ==
    IF balance <= 0 THEN 10000
    ELSE LET risk_amount == (balance * risk_pct) \div 10000
         IN  IF risk_amount < 1000 THEN 1000 ELSE risk_amount

\* RiskManager.calculate_position_size_fixed_usd
calculate_position_size_fixed_usd(symbol, entry_price, stop_loss, symbol_info, fixed_risk_usd) ==
    LET pip_size == PipSizeMicro(symbol) \div PointMicro(symbol)
        \* max(10 * point, 0.001), 0.001 counted in whole points
        emergency_distance == Max(10 * symbol_info.point, 100 \div PointMicro(symbol))
        sl_distance0 == Abs(entry_price - stop_loss)
        sl_distance1 == IF sl_distance0 = 0 THEN emergency_distance ELSE sl_distance0
        sl_distance == IF sl_distance1 <= 0 THEN pip_size * 10 ELSE sl_distance1
        \* pip_size * contract_size, in cents
        pip_value_per_lot == (PipSizeMicro(symbol) * symbol_info.contract_size) \div 1000
        pip_value0 == IF symbol_info.tick_value > 0 THEN symbol_info.tick_value
                      ELSE pip_value_per_lot
        pip_value == IF pip_value0 > 0 THEN pip_value0
                     ELSE IF IsJpySymbol(symbol) THEN 100000
                     ELSE IF IsMetalSymbol(symbol) THEN 10000
                     ELSE 1000
        min_vol0 == symbol_info.min_volume
        max_vol == symbol_info.max_volume
        step_vol == symbol_info.volume_step
        min_vol == IF min_vol0 <= 0 THEN 1 ELSE min_vol0
        \* round(volume / step_vol) with volume = risk / (sl_pips * pip_value)
        steps == RoundHalfEven(fixed_risk_usd * pip_size * 100,
                               sl_distance * pip_value * step_vol)
        volume == Max(min_vol, Min(max_vol, steps * step_vol))
    IN  IF step_vol = 0
        THEN \* ZeroDivisionError: the handler reads the absent key 'volume_min'
             PositionSize(1, fixed_risk_usd, 1000, 100)
        ELSE PositionSize(IF volume <= 0 THEN min_vol ELSE volume, fixed_risk_usd,
                          pip_value, (sl_distance * 10) \div pip_size)

\* The risk amount local to the percent-of-margin branch of
\* calculate_position_size (lines 887-892).
percent_margin_risk_amount(account_balance, free_margin, max_risk_per_trade) ==
    LET reference == IF free_margin <= 0 THEN account_balance ELSE free_margin
        max_risk_pct == Min(max_risk_per_trade, HardCapBp)
    IN  (reference * max_risk_pct) \div 10000

\* RiskManager.calculate_position_size: the percent-of-margin try block ends
\* after computing contract_size, so the call falls off the end of the method.
calculate_position_size(mode, symbol, entry_price, stop_loss, account_balance, symbol_info, free_margin) ==
    IF mode = "fixed_usd"
    THEN calculate_position_size_fixed_usd(symbol, entry_price, stop_loss,
                                           symbol_info, FIXED_RISK_USD)
    ELSE NoPositionSize

\* MrCashondoBot.process_signal, step 2: the risk amount it computes
pipeline_risk_amount(account_info) ==
    Max(calculate_risk_amount(account_info.margin_free, 100),
        calculate_risk_amount(account_info.balance, 100))

\* A sizing step that falls back to one lot
pipeline_position_size_one_lot(mode, symbol, entry_price, stop_loss, symbol_info, account_info) ==
    [volume |-> 100, adjusted |-> TRUE]

\* MrCashondoBot.process_signal, step 2: the position size it ends with
pipeline_position_size(mode, symbol, entry_price, stop_loss, symbol_info, account_info) ==
    LET position_size ==
            IF mode = "fixed_usd"
            THEN calculate_position_size_fixed_usd(symbol, entry_price, stop_loss,
                                                   symbol_info, FIXED_RISK_USD)
            ELSE calculate_position_size(mode, symbol, entry_price, stop_loss,
                                         pipeline_risk_amount(account_info),
                                         symbol_info, account_info.margin_free)
        failed == position_size.kind = "None" \/ position_size.volume <= 0
    IN  [ volume   |-> IF failed THEN symbol_info.min_volume ELSE position_size.volume,
          adjusted |-> failed ]

----------------------------------------------------------------------------
(* SpecSizer: one call of the Position Sizer on each combination of inputs *)

SizerSymbols == {"EURUSD", "USDJPY", "XAUUSD"}

\* Entry price of the symbol in points, e.g. EURUSD 1.10000
SizerEntry(symbol) ==
    IF IsJpySymbol(symbol) THEN 150000
    ELSE IF IsMetalSymbol(symbol) THEN 200000
    ELSE 110000

SizerInputs ==
    { [ mode |-> m, symbol |-> s, entry_price |-> SizerEntry(s),
        stop_loss |-> SizerEntry(s) - d,
        symbol_info |-> SymbolInfo(s, vs, vs, tv),
        account_info |-> [balance |-> b, margin_free |-> f],
        max_risk_per_trade |-> r ] :
        m \in RiskModes, s \in SizerSymbols, d \in {0, 50, 500},
        vs \in {1, 10}, tv \in {0, 100},
        b \in {0, 50000, 1000000}, f \in {0, 40000, 1200000},
        r \in {50, 200} }

SizerIdle ==
    [ stage |-> "idle", result |-> NoPositionSize, volume |-> 0,
      risk_amount |-> 0, local_risk_amount |-> 0, adjusted |-> FALSE ]

InitSizer ==
    /\ szIn \in SizerInputs
    /\ szOut = SizerIdle
    /\ StopsUnused /\ LifeUnused /\ MonitorUnused /\ GuardUnused /\ BotUnused
    /\ PipelineUnused
    /\ ScanUnused
    /\ LoopUnused
    /\ ScorerUnused
    /\ RiskUnused
    /\ VirtualUnused
    /\ ShrinkUnused

\* A caller invokes RiskManager.calculate_position_size directly.
CalculatePositionSize ==
    /\ szOut.stage = "idle"
    /\ LET r == calculate_position_size(szIn.mode, szIn.symbol, szIn.entry_price,
                    szIn.stop_loss, szIn.account_info.balance, szIn.symbol_info,
                    szIn.account_info.margin_free)
       IN  szOut' = [ stage |-> "component", result |-> r, volume |-> r.volume,
                      risk_amount |-> r.risk_amount,
                      local_risk_amount |->
                          IF szIn.mode = "fixed_usd" THEN 0
                          ELSE percent_margin_risk_amount(szIn.account_info.balance,
                                   szIn.account_info.margin_free, szIn.max_risk_per_trade),
                      adjusted |-> FALSE ]
    /\ UNCHANGED <<szIn, NotSizer>>

\* process_signal sizes the trade (main.py 250-308).
SizeInPipeline ==
    /\ szOut.stage = "idle"
    /\ LET p == pipeline_position_size(szIn.mode, szIn.symbol, szIn.entry_price,
                    szIn.stop_loss, szIn.symbol_info, szIn.account_info)
           ra == IF szIn.mode = "fixed_usd" THEN FIXED_RISK_USD
                 ELSE pipeline_risk_amount(szIn.account_info)
       IN  szOut' = [ stage |-> "pipeline", result |-> NoPositionSize,
                      volume |-> p.volume, risk_amount |-> ra,
                      local_risk_amount |->
                          IF szIn.mode = "fixed_usd" THEN 0
                          ELSE percent_margin_risk_amount(ra,
                                   szIn.account_info.margin_free, szIn.max_risk_per_trade),
                      adjusted |-> p.adjusted ]
    /\ UNCHANGED <<szIn, NotSizer>>

NextSizer == CalculatePositionSize \/ SizeInPipeline

SpecSizer == InitSizer /\ [][NextSizer]_vars

\* C1: for every risk mode and every combination of entry, stop-loss,
\* balance/free margin and symbol spec, calculate_position_size returns a
\* PositionSize whose volume v satisfies min_volume <= v <= max_volume, is a
\* whole multiple of the volume step and is > 0.
C1_SizerVolumeWithinLimits ==
    szOut.stage = "component" =>
        /\ szOut.result.kind = "PositionSize"
        /\ szIn.symbol_info.min_volume <= szOut.result.volume
        /\ szOut.result.volume <= szIn.symbol_info.max_volume
        /\ szOut.result.volume % szIn.symbol_info.volume_step = 0
        /\ szOut.result.volume > 0

\* C9: in percent-of-margin mode the risk amount process_signal uses to size
\* the trade equals min(risk_pct, 1 %) * min(free_margin, balance).
C9_RiskAmountIsCappedShare ==
    (szOut.stage = "pipeline" /\ szIn.mode = "percent_margin") =>
        szOut.risk_amount * 10000 =
            Min(szIn.max_risk_per_trade, HardCapBp)
                * Min(szIn.account_info.margin_free, szIn.account_info.balance)

\* C31: in the configured risk mode, with a stop-loss different from the
\* entry, a positive balance and a symbol spec, calculate_position_size
\* returns a PositionSize (never None) whose risk_percentage is at most 1.0.
C31_ConfiguredModeReturnsPositionSize ==
    (/\ szOut.stage = "component"
     /\ szIn.mode = RISK_MODE
     /\ szIn.stop_loss # szIn.entry_price
     /\ szIn.account_info.balance > 0) =>
        /\ szOut.result.kind = "PositionSize"
        /\ szOut.result.risk_percentage <= 1

----------------------------------------------------------------------------
(* Stop Adjuster.  Prices enter and leave in thousandths of a point. *)

\* A price given in units of 0.00001, in thousandths of a point of the symbol.
MicroToSub(symbol, m) == (m * 1000) \div PointMicro(symbol)

\* MT5Connector._determine_instrument_category, by the symbol's name (the
\* dict of get_dynamic_trading_params carries no 'path').
determine_instrument_category(symbol) ==
    IF symbol \in {"EURUSD", "USDJPY"} THEN "forex"
    ELSE IF symbol \in {"XAUUSD"} THEN "metal"
    ELSE IF symbol \in {"US30"} THEN "index"
    ELSE IF symbol \in {"XRPUSD"} THEN "crypto"
    ELSE "unknown"

\* The category floor of validate_and_adjust_stops (lines 1708-1722), in
\* units of 0.00001 of price.
CategoryFloorMicro(symbol, force_adjustment) ==
    LET category == determine_instrument_category(symbol)
    IN  IF category = "forex"
        THEN IF IsJpySymbol(symbol)
             THEN (IF force_adjustment THEN 20000 ELSE 10000)
             ELSE (IF force_adjustment THEN 200 ELSE 100)
        ELSE IF category = "metal"
        THEN (IF force_adjustment THEN 100000 ELSE 60000)
        ELSE IF category = "index"
        THEN (IF force_adjustment THEN 500000 ELSE 300000)
        ELSE IF category = "crypto"
        THEN (IF force_adjustment THEN 4000000 ELSE 2000000)
        ELSE (IF force_adjustment THEN 200000 ELSE 100000)

StopResult(sl, tp, valid) == [sl |-> sl, tp |-> tp, valid |-> valid]

\* The single element of a one-element set.  Intermediate values are bound
\* as elements of singleton sets so that each is computed once.
Only(S) == CHOOSE x \in S : TRUE

\* validate_and_adjust_stops, lines 1700-1726: min_distance_price
VasMinDistance(symbol, price0, force_adjustment, trade_stops_level) ==
    LET safety_factor == IF force_adjustment THEN 10 ELSE 6
        min_distance_points == Max(trade_stops_level, 5) * safety_factor
        floored == Max(min_distance_points * 1000,
                       MicroToSub(symbol, CategoryFloorMicro(symbol, force_adjustment)))
    IN  \* min_distance_price >= price: 5 % of the price
        IF floored >= price0 THEN price0 \div 20 ELSE floored

\* validate_and_adjust_stops, lines 1728-1737: the price the stops are
\* validated against
VasPrice(buy, price0, min_distance_price, current_price_data) ==
    LET market_price == IF buy THEN current_price_data.ask ELSE current_price_data.bid
    IN  IF current_price_data.available
           /\ Abs(price0 - market_price) > min_distance_price * 2
        THEN market_price ELSE price0

\* validate_and_adjust_stops, lines 1739-1758: the stop-loss
VasStopLoss(buy, price, min_distance_price, sl0) ==
    LET default_sl == IF buy THEN Max(price - min_distance_price, (price \div 10) * 9)
                      ELSE Min(price + min_distance_price, (price \div 10) * 11)
    IN  IF sl0 <= 0 THEN default_sl
        ELSE IF buy
        THEN (IF sl0 >= price \/ price - sl0 < min_distance_price
              THEN default_sl ELSE sl0)
        ELSE (IF sl0 <= price \/ sl0 - price < min_distance_price
              THEN default_sl ELSE sl0)

\* validate_and_adjust_stops, lines 1760-1787: the take-profit
VasTakeProfit(buy, price, min_distance_price, sl, tp0) ==
    LET tp_offset == Max((Abs(price - sl) * 3) \div 2, min_distance_price)
        default_tp == IF buy THEN price + tp_offset ELSE price - tp_offset
        tp2 == IF tp0 <= 0 THEN default_tp
               ELSE IF buy
               THEN (IF tp0 <= price \/ tp0 - price < min_distance_price
                     THEN default_tp ELSE tp0)
               ELSE (IF tp0 >= price \/ price - tp0 < min_distance_price
                     THEN default_tp ELSE tp0)
    IN  \* abs(tp - sl) / max(abs(price - sl), 1e-8) < 1.3
        IF Abs(tp2 - sl) * 10 < 13 * Abs(price - sl) THEN default_tp ELSE tp2

\* validate_and_adjust_stops, lines 1789-1802: rounding and the final check
VasRounded(buy, price, sl, tp) ==
    LET sl_rounded == RoundHalfEven(sl, 1000) * 1000
        tp_rounded == RoundHalfEven(tp, 1000) * 1000
    IN  StopResult(
            IF sl_rounded > 0 THEN sl_rounded
            ELSE IF buy THEN RoundHalfEven((price \div 10) * 9, 1000) * 1000
            ELSE RoundHalfEven((price \div 10) * 11, 1000) * 1000,
            IF tp_rounded > 0 THEN tp_rounded
            ELSE IF buy THEN RoundHalfEven((price \div 20) * 21, 1000) * 1000
            ELSE RoundHalfEven((price \div 20) * 19, 1000) * 1000,
            TRUE)

\* MT5Connector.validate_and_adjust_stops.  symbol_specs is the dict of
\* get_dynamic_trading_params ({} when unavailable); current_price_data is
\* what get_current_price returned.
validate_and_adjust_stops(symbol, order_type, price0, sl0, tp0, force_adjustment, symbol_specs, current_price_data) ==
    IF ~symbol_specs.available \/ price0 <= 0
    THEN StopResult(sl0, tp0, FALSE)
    ELSE
    Only({ Only({ Only({ Only({
        VasRounded(order_type = "BUY", price, sl, tp) :
            tp \in {VasTakeProfit(order_type = "BUY", price, md, sl, tp0)} }) :
            sl \in {VasStopLoss(order_type = "BUY", price, md, sl0)} }) :
            price \in {VasPrice(order_type = "BUY", price0, md, current_price_data)} }) :
            md \in {VasMinDistance(symbol, price0, force_adjustment,
                                   symbol_specs.trade_stops_level)} })

\* adjust_stops, lines 559-583: min_sl_distance
AsMinDistance(symbol, symbol_info, atr) ==
    LET point == IF symbol_info.available THEN 1000 ELSE MicroToSub(symbol, 10)
        base_distance == Max(10 * point, 5 * point)
    IN  IF atr > 0 THEN Max(base_distance * 3, (atr \div 5) * 4) ELSE base_distance * 3

\* adjust_stops, lines 591-639: the stop-loss
AsStopLoss(buy, entry_price, min_sl_distance, sl0, atr) ==
    LET sl1 == IF atr > 0
               THEN (IF buy THEN entry_price - Max((atr \div 2) * 3, min_sl_distance)
                     ELSE entry_price + Max((atr \div 2) * 3, min_sl_distance))
               ELSE sl0
        sl2 == IF buy
               THEN (IF sl1 >= entry_price \/ sl1 <= 0
                     THEN entry_price - min_sl_distance ELSE sl1)
               ELSE (IF sl1 <= entry_price \/ sl1 <= 0
                     THEN entry_price + min_sl_distance ELSE sl1)
    IN  IF buy
        THEN (IF entry_price - sl2 < min_sl_distance
              THEN entry_price - min_sl_distance ELSE sl2)
        ELSE (IF sl2 - entry_price < min_sl_distance
              THEN entry_price + min_sl_distance ELSE sl2)

\* adjust_stops, lines 591-661: the take-profit
AsTakeProfit(buy, entry_price, min_sl_distance, sl, tp0, atr) ==
    LET tp1 == IF atr > 0
               THEN (IF buy THEN entry_price + Max((atr \div 2) * 5, min_sl_distance)
                     ELSE entry_price - Max((atr \div 2) * 5, min_sl_distance))
               ELSE tp0
        tp2 == IF buy
               THEN (IF tp1 <= entry_price \/ tp1 <= 0
                     THEN entry_price + min_sl_distance ELSE tp1)
               ELSE (IF tp1 >= entry_price \/ tp1 <= 0
                     THEN entry_price - min_sl_distance ELSE tp1)
        tp3 == IF buy
               THEN (IF tp2 - entry_price < min_sl_distance
                     THEN entry_price + min_sl_distance ELSE tp2)
               ELSE (IF entry_price - tp2 < min_sl_distance
                     THEN entry_price - min_sl_distance ELSE tp2)
        sl_distance == Abs(entry_price - sl)
    IN  \* tp_distance < sl_distance * 1.3
        IF Abs(tp3 - entry_price) * 10 < sl_distance * 13
        THEN (IF buy THEN entry_price + (sl_distance \div 2) * 3
              ELSE entry_price - (sl_distance \div 2) * 3)
        ELSE tp3

\* adjust_stops, lines 663-679: no non-positive stop, rounding
AsRounded(buy, entry_price, sl, tp, unit) ==
    StopResult(
        RoundHalfEven(IF sl > 0 THEN sl
                      ELSE IF buy THEN (entry_price \div 20) * 19
                      ELSE (entry_price \div 20) * 21, unit) * unit,
        RoundHalfEven(IF tp > 0 THEN tp
                      ELSE IF buy THEN (entry_price \div 20) * 21
                      ELSE (entry_price \div 20) * 19, unit) * unit,
        TRUE)

\* RiskManager.adjust_stops.  symbol_info is the dict of get_symbol_info, {}
\* when unavailable: then point defaults to 0.0001 and digits to 5.  The dict
\* has no 'stops_level', 'sl_multiplier', 'tp_multiplier' or 'adx' key, so
\* stops_level = 0, sl_mult = 1.5 and tp_mult = 2.5.  atr = 0 stands for None.
adjust_stops(symbol, signal_type, entry0, sl0, tp0, symbol_info, atr) ==
    Only({ Only({ Only({ Only({
        AsRounded(signal_type = "BUY", entry_price, sl, tp,
                  IF symbol_info.available THEN 1000 ELSE MicroToSub(symbol, 1)) :
            tp \in {AsTakeProfit(signal_type = "BUY", entry_price, md, sl, tp0, atr)} }) :
            sl \in {AsStopLoss(signal_type = "BUY", entry_price, md, sl0, atr)} }) :
            md \in {AsMinDistance(symbol, symbol_info, atr)} }) :
            entry_price \in {IF entry0 <= 0 THEN MicroToSub(symbol, 100000) ELSE entry0} })

----------------------------------------------------------------------------
(* SpecStops: one call of a Stop Adjuster on each combination of inputs *)

StopSymbols == {"EURUSD", "XAUUSD"}
Directions == {"BUY", "SELL"}

\* Entry prices in points: a usual quote, a price below the category floor,
\* and a missing (zero) price.
StopEntries(symbol) == {IF IsMetalSymbol(symbol) THEN 200000 ELSE 110000, 40, 0}

\* Proposed stops as offsets from the entry, in points, counted in the
\* trade's favour for TP and against it for SL; "none" is a missing stop (0).
\* A signal's stops are floats computed from indicators, so they also fall
\* between two points: "sub" is an offset in thousandths of a point.
StopOffsets ==
    {<<"none", 0>>, <<"at", 500>>, <<"at", 20>>, <<"at", 0>>, <<"at", -300>>,
     <<"sub", 500600>>, <<"sub", 650800>>}

StopPrice(dir, entry, off, isSl) ==
    IF off[1] = "none" THEN 0
    ELSE LET sub == IF off[1] = "sub" THEN off[2] ELSE off[2] * 1000
         IN  IF (dir = "BUY") = isSl THEN entry * 1000 - sub
             ELSE entry * 1000 + sub

\* get_current_price: None, or (bid, ask) at an offset from the entry
MarketOffsets == {<<"none", 0>>, <<"at", 0>>, <<"at", -600>>, <<"at", 600>>}

CurrentPriceData(entry, off) ==
    IF off[1] = "none" THEN [available |-> FALSE, bid |-> 0, ask |-> 0]
    ELSE [available |-> TRUE, bid |-> (entry + off[2]) * 1000,
          ask |-> (entry + off[2] + 2) * 1000]

\* One call's arguments
StopInput(s, d, e, so, to, f, av, lv, mo, a) ==
    [ symbol |-> s, order_type |-> d, price |-> e * 1000,
      sl |-> StopPrice(d, e, so, TRUE), tp |-> StopPrice(d, e, to, FALSE),
      force_adjustment |-> f,
      symbol_specs |-> [available |-> av, trade_stops_level |-> lv],
      current_price_data |-> CurrentPriceData(e, mo),
      atr |-> a * 1000 ]

\* Prices the program can meet: no negative stop, no negative quote.
StopInputOk(i) ==
    /\ i.sl >= 0
    /\ i.tp >= 0
    /\ i.current_price_data.available => i.current_price_data.bid > 0

StopIdle == [stage |-> "idle", sl |-> 0, tp |-> 0, valid |-> FALSE]

InitStops ==
    /\ \E s \in StopSymbols, d \in Directions, f \in BOOLEAN, av \in BOOLEAN :
       \E e \in StopEntries(s), so \in StopOffsets, to \in StopOffsets :
       \E lv \in {0, 30}, mo \in MarketOffsets, a \in {0, 200} :
           /\ stIn = StopInput(s, d, e, so, to, f, av, lv, mo, a)
           /\ StopInputOk(stIn)
    /\ stOut = StopIdle
    /\ SizerUnused /\ LifeUnused /\ MonitorUnused /\ GuardUnused /\ BotUnused
    /\ PipelineUnused
    /\ ScanUnused
    /\ LoopUnused
    /\ ScorerUnused
    /\ RiskUnused
    /\ VirtualUnused
    /\ ShrinkUnused

\* MT5Connector.validate_and_adjust_stops is called (process_signal, send_order).
ValidateAndAdjustStops ==
    /\ stOut.stage = "idle"
    /\ LET r == validate_and_adjust_stops(stIn.symbol, stIn.order_type, stIn.price,
                    stIn.sl, stIn.tp, stIn.force_adjustment, stIn.symbol_specs,
                    stIn.current_price_data)
       IN  stOut' = [stage |-> "validate_and_adjust_stops", sl |-> r.sl,
                     tp |-> r.tp, valid |-> r.valid]
    /\ UNCHANGED <<stIn, NotStops>>

\* RiskManager.adjust_stops is called (calculate_position_size).
AdjustStops ==
    /\ stOut.stage = "idle"
    /\ LET r == adjust_stops(stIn.symbol, stIn.order_type, stIn.price, stIn.sl,
                    stIn.tp, stIn.symbol_specs, stIn.atr)
       IN  stOut' = [stage |-> "adjust_stops", sl |-> r.sl, tp |-> r.tp,
                     valid |-> r.valid]
    /\ UNCHANGED <<stIn, NotStops>>

\* The stops validate_and_adjust_stops returned are validated again:
\* process_signal puts them in the OrderRequest and send_order (lines 383-397)
\* calls validate_and_adjust_stops on the request's sl and tp.
ValidateAndAdjustStopsAgain ==
    /\ stOut.stage = "validate_and_adjust_stops"
    /\ LET r == validate_and_adjust_stops(stIn.symbol, stIn.order_type, stIn.price,
                    stOut.sl, stOut.tp, stIn.force_adjustment, stIn.symbol_specs,
                    stIn.current_price_data)
       IN  stOut' = [stage |-> "validate_and_adjust_stops_again", sl |-> r.sl,
                     tp |-> r.tp, valid |-> r.valid,
                     first_sl |-> stOut.sl, first_tp |-> stOut.tp]
    /\ UNCHANGED <<stIn, NotStops>>

\* adjust_stops is called on the stops it returned.
AdjustStopsAgain ==
    /\ stOut.stage = "adjust_stops"
    /\ LET r == adjust_stops(stIn.symbol, stIn.order_type, stIn.price, stOut.sl,
                    stOut.tp, stIn.symbol_specs, stIn.atr)
       IN  stOut' = [stage |-> "adjust_stops_again", sl |-> r.sl, tp |-> r.tp,
                     valid |-> r.valid,
                     first_sl |-> stOut.sl, first_tp |-> stOut.tp]
    /\ UNCHANGED <<stIn, NotStops>>

NextStops ==
    \/ ValidateAndAdjustStops
    \/ AdjustStops
    \/ ValidateAndAdjustStopsAgain
    \/ AdjustStopsAgain

SpecStops == InitStops /\ [][NextStops]_vars

\* Stops on the trade's side of a reference price: SL < ref < TP for BUY,
\* TP < ref < SL for SELL.
OnCorrectSide(dir, ref, sl, tp) ==
    IF dir = "BUY" THEN sl < ref /\ ref < tp ELSE tp < ref /\ ref < sl

\* C6: for every direction, (positive) entry price and proposed SL/TP, the
\* stops a Stop Adjuster returns as valid satisfy SL < entry < TP for BUY and
\* TP < entry < SL for SELL.
C6_StopsOnCorrectSideOfEntry ==
    (stOut.stage # "idle" /\ stOut.valid /\ stIn.price > 0) =>
        OnCorrectSide(stIn.order_type, stIn.price, stOut.sl, stOut.tp)

\* C10: for any input with a positive entry (missing, zero or wrong-side
\* stops, unavailable symbol spec) a Stop Adjuster returns a repaired pair:
\* both stops strictly positive and neither crossing the entry.
C10_StopsAlwaysRepaired ==
    (stOut.stage # "idle" /\ stIn.price > 0) =>
        /\ stOut.sl > 0
        /\ stOut.tp > 0
        /\ OnCorrectSide(stIn.order_type, stIn.price, stOut.sl, stOut.tp)

\* C11: the stops a Stop Adjuster returns as valid satisfy
\* |TP - entry| >= 1.3 * |entry - SL|.
C11_RewardRiskRatioHolds ==
    (stOut.stage # "idle" /\ stOut.valid /\ stIn.price > 0) =>
        Abs(stOut.tp - stIn.price) * 10 >= 13 * Abs(stIn.price - stOut.sl)

\* C12: feeding the (sl, tp) a Stop Adjuster returned back into it, with the
\* same direction, entry, symbol spec and ATR, returns the same (sl, tp).
C12_AdjustIsIdempotent ==
    stOut.stage \in {"validate_and_adjust_stops_again", "adjust_stops_again"} =>
        /\ stOut.sl = stOut.first_sl
        /\ stOut.tp = stOut.first_tp

(***************************************************************************)
(* Lifecycle manager: RiskManager.manage_partial_and_trailing.             *)
(* Prices are in points, volumes in thousandths of a lot.  One action is   *)
(* one call for one entry of open_positions, as monitor_positions makes it *)
(* each monitoring cycle, with the exception handler around the call.      *)
(***************************************************************************)

\* Monitoring cycles explored
MaxCycles == 3

\* The methods of the connector that monitor_positions passes as broker_api
MT5ConnectorMethods ==
    {"get_positions", "modify_position", "close_position", "get_current_price"}

\* The broker interface the usage note of the lifecycle manager asks for
DocumentedBrokerMethods ==
    {"close_partial", "modify_stop_loss", "is_partial_close_allowed",
     "is_partial_closed", "is_position_open", "close_position"}

BrokerApis == {"MT5Connector", "documented"}

\* hasattr(broker_api, method); a call of a missing method raises AttributeError
HasMethod(api, method) ==
    IF api = "MT5Connector" THEN method \in MT5ConnectorMethods
    ELSE method \in DocumentedBrokerMethods

split_position_for_partial(volume) == <<volume \div 2, volume \div 2>>

\* current_price has moved r_tenths / 10 times the initial risk in favor
ReachedR(pos, current_price, r_tenths) ==
    LET r == (r_tenths * Abs(pos.entry_price - pos.stop_loss)) \div 10
    IN  IF pos.signal_type = "BUY" THEN current_price >= pos.entry_price + r
        ELSE current_price <= pos.entry_price - r

LifeResult(broker, calls, raised) ==
    [broker |-> broker, calls |-> calls, raised |-> raised]

\* Step 1: partial close at TP1 = 1R and stop to break-even
LcPartialClose(pos, current_price, broker, calls, env) ==
    LET partial_close_done ==
            IF HasMethod(broker.api, "is_partial_closed")
            THEN broker.partial_closed ELSE FALSE
        partial_vol == split_position_for_partial(pos.volume)[1]
    IN  IF partial_close_done \/ ~ReachedR(pos, current_price, 10)
        THEN LifeResult(broker, calls, "none")
        ELSE IF ~HasMethod(broker.api, "is_partial_close_allowed")
        THEN LifeResult(broker, calls, "AttributeError")
        ELSE IF ~broker.partial_allowed
        THEN LifeResult(broker, calls, "none")
        ELSE LifeResult(
                 [broker EXCEPT
                      !.partial_closed = @ \/ env.close_partial_ok,
                      !.volume = IF env.close_partial_ok THEN @ - partial_vol ELSE @,
                      !.sl = IF env.modify_ok THEN pos.entry_price ELSE @],
                 [calls EXCEPT
                      !.close_partial = @ + 1,
                      !.partial_vol = partial_vol,
                      !.modify_stop_loss = @ + 1,
                      !.new_sl = pos.entry_price],
                 "none")

\* Step 2: trailing stop from 1.5R on.  The call passes close_prices=,
\* stop_loss=, atr= and period= to calculate_trailing_stop(signal_type,
\* entry_price, current_price, atr_value), which raises TypeError.
LcTrailing(pos, current_price, r) ==
    IF r.raised # "none" THEN r
    ELSE IF ReachedR(pos, current_price, 15)
    THEN [r EXCEPT !.raised = "TypeError"]
    ELSE r

\* Step 3: close the runner when the initial stop or the final target is hit
LcFinalClose(pos, current_price, r, env) ==
    LET hit == IF pos.signal_type = "BUY"
               THEN current_price <= pos.stop_loss \/ current_price >= pos.take_profit
               ELSE current_price >= pos.stop_loss \/ current_price <= pos.take_profit
    IN  IF r.raised # "none" \/ ~hit THEN r
        ELSE IF ~HasMethod(r.broker.api, "is_position_open")
        THEN [r EXCEPT !.raised = "AttributeError"]
        ELSE IF ~r.broker.open THEN r
        ELSE [r EXCEPT !.broker.open = ~env.close_ok,
                       !.calls.close_position = @ + 1]

manage_partial_and_trailing(pos, current_price, broker, calls, env) ==
    Only({ Only({ LcFinalClose(pos, current_price, r2, env)
                  : r2 \in {LcTrailing(pos, current_price, r1)} })
           : r1 \in {LcPartialClose(pos, current_price, broker, calls, env)} })

\* Entries of open_positions: 1R = 100 points, final target at 2R or at 0.5R
LifePositions ==
    { [position_id |-> 1, signal_type |-> d, entry_price |-> 1000,
       stop_loss |-> IF d = "BUY" THEN 900 ELSE 1100,
       take_profit |-> IF d = "BUY" THEN 1000 + t ELSE 1000 - t,
       volume |-> v]
      : d \in Directions, t \in {200, 50}, v \in {10, 100} }

\* Current prices of a cycle: from the initial stop (-1R) to the target (+2R)
LifePrices(pos) ==
    { IF pos.signal_type = "BUY" THEN pos.entry_price + o ELSE pos.entry_price - o
      : o \in {-100, 0, 50, 100, 150, 200} }

\* What the broker does with the calls of one cycle
BrokerOutcomes == [close_partial_ok : BOOLEAN, modify_ok : BOOLEAN, close_ok : BOOLEAN]

NoBrokerCalls == [close_partial_ok |-> TRUE, modify_ok |-> TRUE, close_ok |-> TRUE]

\* The structure of the recent closes of a cycle: the nearest swing level
\* behind the price (<<"none", 0>> when find_fractals finds none) and the last
\* value of the EMA, both on the favorable side of the entry
LifeMarkets(pos) ==
    { [trailing_fractal |-> f,
       trailing_ema |-> IF pos.signal_type = "BUY" THEN pos.entry_price + 60
                        ELSE pos.entry_price - 60]
      : f \in { <<"none", 0>>,
                <<"at", IF pos.signal_type = "BUY" THEN pos.entry_price + 120
                        ELSE pos.entry_price - 120>> } }

NoMarket == [trailing_fractal |-> <<"none", 0>>, trailing_ema |-> 0]

\* The broker calls of the partial-close step
NoActions == [close_partial |-> FALSE, modify_stop_loss |-> FALSE]

\* The calls one cycle has added to the calls made so far
BrokerCallsMade(before, after) ==
    [close_partial |-> after.close_partial > before.close_partial,
     modify_stop_loss |-> after.modify_stop_loss > before.modify_stop_loss]

\* The calls of a cycle that the broker did not carry out
BrokerCallsFailed(attempted, env) ==
    [close_partial |-> attempted.close_partial /\ ~env.close_partial_ok,
     modify_stop_loss |-> attempted.modify_stop_loss /\ ~env.modify_ok]

InitLife ==
    /\ lcPos \in LifePositions
    /\ \E api \in BrokerApis, allowed \in BOOLEAN :
           /\ (api = "MT5Connector" => allowed)
           /\ lcBroker = [api |-> api, partial_allowed |-> allowed,
                          partial_closed |-> FALSE, open |-> TRUE,
                          sl |-> lcPos.stop_loss, volume |-> lcPos.volume]
    /\ lcCalls = [close_partial |-> 0, partial_vol |-> 0, modify_stop_loss |-> 0,
                  new_sl |-> 0, close_position |-> 0]
    /\ lcCycle = [n |-> 0, raised |-> "none", reached1R |-> FALSE,
                  current_price |-> lcPos.entry_price, was_open |-> FALSE,
                  sl_before |-> lcPos.stop_loss, env |-> NoBrokerCalls,
                  market |-> NoMarket, attempted |-> NoActions,
                  failed |-> NoActions, prev_failed |-> NoActions]
    /\ SizerUnused /\ StopsUnused /\ MonitorUnused /\ GuardUnused /\ BotUnused
    /\ PipelineUnused
    /\ ScanUnused
    /\ LoopUnused
    /\ ScorerUnused
    /\ RiskUnused
    /\ VirtualUnused
    /\ ShrinkUnused

\* One monitoring cycle for the position: monitor_positions calls the manager
\* and logs whatever it raises.
ManagePartialAndTrailing ==
    /\ lcCycle.n < MaxCycles
    /\ \E current_price \in LifePrices(lcPos), env \in BrokerOutcomes,
          market \in LifeMarkets(lcPos) :
           LET r == manage_partial_and_trailing(lcPos, current_price, lcBroker,
                                                lcCalls, env)
               attempted == BrokerCallsMade(lcCalls, r.calls)
           IN  /\ lcBroker' = r.broker
               /\ lcCalls' = r.calls
               /\ lcCycle' = [n |-> lcCycle.n + 1, raised |-> r.raised,
                              reached1R |-> lcCycle.reached1R
                                  \/ (lcBroker.open /\ ReachedR(lcPos, current_price, 10)),
                              current_price |-> current_price,
                              was_open |-> lcBroker.open,
                              sl_before |-> lcBroker.sl,
                              env |-> env,
                              market |-> market,
                              attempted |-> attempted,
                              failed |-> BrokerCallsFailed(attempted, env),
                              prev_failed |-> lcCycle.failed]
    /\ UNCHANGED <<lcPos, NotLife>>

NextLife == ManagePartialAndTrailing

SpecLife == InitLife /\ [][NextLife]_vars

\* C4: once a monitoring cycle has seen the open position at +1R or beyond,
\* the lifecycle manager has issued exactly one partial close, of half the
\* volume, and one stop modification, to the entry price; never a second
\* partial close.
C4_OnePartialCloseAtOneR ==
    lcCycle.reached1R =>
        /\ lcCalls.close_partial = 1
        /\ lcCalls.partial_vol * 2 = lcPos.volume
        /\ lcCalls.modify_stop_loss = 1
        /\ lcCalls.new_sl = lcPos.entry_price

\* The position of the last cycle was open and the price of the cycle had
\* crossed the stop in force at the broker or the final target
CrossedStopOrTarget ==
    /\ lcCycle.n > 0
    /\ lcCycle.was_open
    /\ IF lcPos.signal_type = "BUY"
       THEN \/ lcCycle.current_price <= lcCycle.sl_before
            \/ lcCycle.current_price >= lcPos.take_profit
       ELSE \/ lcCycle.current_price >= lcCycle.sl_before
            \/ lcCycle.current_price <= lcPos.take_profit

\* C15: an open position whose current price has crossed the stop in force
\* (initial, break-even or trailed) or the final take-profit is closed in that
\* monitoring cycle, the broker carrying out every close it is asked for.
C15_ClosedWhenStopOrTargetCrossed ==
    (CrossedStopOrTarget /\ lcCycle.env.close_ok) => ~lcBroker.open

\* The last cycle ran for the open position with the price still at or
\* beyond +1R, right after a cycle in which the broker call a had failed
RetryDue(a) ==
    /\ lcCycle.n > 1
    /\ lcCycle.was_open
    /\ lcCycle.prev_failed[a]
    /\ ReachedR(lcPos, lcCycle.current_price, 10)

\* C16: a partial close or a stop modification that failed at the broker in
\* one monitoring cycle is issued again in the next cycle.
C16_FailedBrokerCallRetried ==
    \A a \in {"close_partial", "modify_stop_loss"} :
        RetryDue(a) => lcCycle.attempted[a]

\* RiskManager.calculate_trailing_stop_structural, given the nearest swing
\* level behind the price and the last EMA value; <<"none", 0>> is None
calculate_trailing_stop_structural(pos, current_price, market) ==
    LET risk == Abs(pos.entry_price - pos.stop_loss)
        buy == pos.signal_type = "BUY"
        floor == IF buy THEN pos.entry_price + risk \div 10
                 ELSE pos.entry_price - risk \div 10
        levels == {market.trailing_ema, floor}
                      \cup (IF market.trailing_fractal[1] = "at"
                            THEN {market.trailing_fractal[2]} ELSE {})
        best == IF buy THEN CHOOSE x \in levels : \A y \in levels : x >= y
                ELSE CHOOSE x \in levels : \A y \in levels : x <= y
        trailing_stop == IF buy THEN Max(best, pos.entry_price)
                         ELSE Min(best, pos.entry_price)
    IN  IF ~ReachedR(pos, current_price, 10) THEN <<"none", 0>>
        ELSE IF buy /\ trailing_stop > pos.stop_loss THEN <<"at", trailing_stop>>
        ELSE IF ~buy /\ trailing_stop < pos.stop_loss THEN <<"at", trailing_stop>>
        ELSE <<"none", 0>>

\* C17: in a monitoring cycle that finds the open position at +1.5R or beyond,
\* the manager completes without raising and issues the stop update that the
\* structural trailing computation (fractal, EMA, offset from entry) gives.
C17_TrailingStopUpdateIssued ==
    (lcCycle.n > 0 /\ lcCycle.was_open /\ ReachedR(lcPos, lcCycle.current_price, 15)) =>
        LET trailing_stop == calculate_trailing_stop_structural(
                                 lcPos, lcCycle.current_price, lcCycle.market)
        IN  /\ lcCycle.raised = "none"
            /\ trailing_stop[1] = "at" =>
                   /\ lcCalls.modify_stop_loss > 0
                   /\ lcCalls.new_sl = trailing_stop[2]

(***************************************************************************)
(* Position monitor: MrCashondoBot.monitor_position with                   *)
(* RiskManager.should_move_to_breakeven and calculate_trailing_stop.       *)
(* Prices and the ATR are in points; the multipliers are in tenths.        *)
(***************************************************************************)

breakeven_multiplier == 12
trailing_stop_multiplier == 14

should_move_to_breakeven(signal_type, entry_price, current_price, atr_value) ==
    LET breakeven_distance == (atr_value * breakeven_multiplier) \div 10
    IN  IF signal_type = "BUY"
        THEN current_price >= entry_price + breakeven_distance
        ELSE current_price <= entry_price - breakeven_distance

\* <<"none", 0>> is None
calculate_trailing_stop(signal_type, entry_price, current_price, atr_value) ==
    LET trailing_distance == (atr_value * trailing_stop_multiplier) \div 10
        new_sl == IF signal_type = "BUY" THEN current_price - trailing_distance
                  ELSE current_price + trailing_distance
    IN  IF signal_type = "BUY"
        THEN (IF new_sl > entry_price THEN <<"at", new_sl>> ELSE <<"none", 0>>)
        ELSE (IF new_sl < entry_price THEN <<"at", new_sl>> ELSE <<"none", 0>>)

\* A stop modification sent to the broker: the stop the position had when it
\* was sent, the stop asked for, and whether the broker applied it.
StopModification(old_sl, new_sl, done) == [old |-> old_sl, new |-> new_sl, done |-> done]

\* The break-even move of one cycle: modifications sent, given the broker's answer
MpBreakeven(signal, current_price, broker_sl, be_done) ==
    IF should_move_to_breakeven(signal.signal_type, signal.entry_price,
                                current_price, signal.atr_value)
    THEN <<StopModification(broker_sl, signal.entry_price, be_done)>>
    ELSE <<>>

\* The stop at the broker after a sequence of modifications
SlAfter(broker_sl, mods) ==
    IF mods # <<>> /\ mods[Len(mods)].done THEN mods[Len(mods)].new ELSE broker_sl

\* The trailing move of one cycle; position_sl is position['sl'], read before
\* the cycle's break-even move
MpTrailing(signal, current_price, position_sl, broker_sl, trail_done) ==
    LET new_trailing_sl == calculate_trailing_stop(signal.signal_type,
                               signal.entry_price, current_price, signal.atr_value)
        should_update ==
            /\ new_trailing_sl[1] = "at"
            /\ IF signal.signal_type = "BUY" THEN new_trailing_sl[2] > position_sl
               ELSE new_trailing_sl[2] < position_sl
    IN  IF should_update
        THEN <<StopModification(broker_sl, new_trailing_sl[2], trail_done)>>
        ELSE <<>>

\* Tracked positions: entry 1000, ATR 100, initial stop 1.5 ATR away
MonitorPositions ==
    { [ticket |-> 1, signal_type |-> d, entry_price |-> 1000, atr_value |-> 100,
       sl |-> IF d = "BUY" THEN 850 ELSE 1150]
      : d \in Directions }

\* price_current of a cycle, as a move in favor of the position
MonitorPrices(signal) ==
    { IF signal.signal_type = "BUY" THEN signal.entry_price + o
      ELSE signal.entry_price - o
      : o \in {-50, 0, 120, 200, 300, 400} }

InitMonitor ==
    /\ mpPos \in MonitorPositions
    /\ mpSl = mpPos.sl
    /\ mpMods = <<>>
    /\ mpCycle = 0
    /\ SizerUnused /\ StopsUnused /\ LifeUnused /\ GuardUnused /\ BotUnused
    /\ PipelineUnused
    /\ ScanUnused
    /\ LoopUnused
    /\ ScorerUnused
    /\ RiskUnused
    /\ VirtualUnused
    /\ ShrinkUnused

\* One call of monitor_position for the open, tracked position
MonitorPosition ==
    /\ mpCycle < MaxCycles
    /\ \E current_price \in MonitorPrices(mpPos), be_done \in BOOLEAN, trail_done \in BOOLEAN :
           LET be == MpBreakeven(mpPos, current_price, mpSl, be_done)
               sl1 == SlAfter(mpSl, be)
               tr == MpTrailing(mpPos, current_price, mpSl, sl1, trail_done)
           IN  /\ mpMods' = be \o tr
               /\ mpSl' = SlAfter(sl1, tr)
    /\ mpCycle' = mpCycle + 1
    /\ UNCHANGED <<mpPos, NotMonitor>>

NextMonitor == MonitorPosition

SpecMonitor == InitMonitor /\ [][NextMonitor]_vars

\* The stop new_sl is no looser than old_sl
NotLoosened(signal_type, old_sl, new_sl) ==
    IF signal_type = "BUY" THEN new_sl >= old_sl ELSE new_sl <= old_sl

\* C5: every stop modification issued in a monitoring cycle moves the stop in
\* the position's favor relative to the stop the position has at that moment
\* (not lower for BUY, not higher for SELL).
C5_StopNeverLoosened ==
    \A i \in 1..Len(mpMods) :
        NotLoosened(mpPos.signal_type, mpMods[i].old, mpMods[i].new)

(***************************************************************************)
(* Exposure guard.  Money is in cents, volumes in hundredths of a lot,     *)
(* prices in points.                                                       *)
(***************************************************************************)

\* The price of the symbol in cents
PriceCents(symbol, price) == (price * PointMicro(symbol)) \div 1000

\* volume * contract_size * price, in cents
Notional(symbol, volume, price, symbol_info) ==
    ((symbol_info.contract_size * volume) \div 100) * PriceCents(symbol, price)

\* RiskManager.calculate_margin_required
calculate_margin_required(symbol, volume, entry_price, symbol_info) ==
    LET leverage == IF symbol_info.leverage <= 0 THEN 100 ELSE symbol_info.leverage
    IN  Notional(symbol, volume, entry_price, symbol_info) \div leverage

\* The share of the balance an instrument may commit, in percent: metals 25,
\* currency pairs 40, anything else 20 (get_exposure_limit and
\* RiskManager.calculate_dynamic_exposure_limit use the same table).
ExposureLimitPct(symbol) ==
    IF symbol \in {"XAUUSD"} THEN 25
    ELSE IF symbol \in {"EURUSD", "USDJPY", "XRPUSD"} THEN 40
    ELSE 20

\* An exposure limit that takes 10000 USD for a balance it cannot read
get_exposure_limit_default_balance(symbol_info, account_info) ==
    ((IF account_info.balance = 0 THEN 1000000 ELSE account_info.balance)
        * ExposureLimitPct(symbol_info.symbol)) \div 100

\* RiskManager.get_exposure_limit
get_exposure_limit(symbol_info, account_info) ==
    (account_info.balance * ExposureLimitPct(symbol_info.symbol)) \div 100

\* RiskManager.calculate_dynamic_exposure_limit(free_margin, symbol, strategy)
calculate_dynamic_exposure_limit(free_margin, symbol) ==
    ((IF free_margin <= 0 THEN 0 ELSE free_margin) * ExposureLimitPct(symbol)) \div 100

\* process_signal, step 4: the volume it tests and whether it sends the order
test_volume(position_size_volume, symbol_info) ==
    Max(position_size_volume, symbol_info.min_volume)

can_execute(volume, symbol_info, margin_required, exposure_limit) ==
    volume >= symbol_info.min_volume /\ margin_required <= exposure_limit

\* RiskManager.validate_exposure_and_margin: the bool of the returned pair
validate_exposure_and_margin(proposed_exposure, max_exposure) ==
    IF proposed_exposure * 10 > max_exposure * 11 THEN FALSE
    ELSE IF proposed_exposure > max_exposure THEN TRUE
    ELSE TRUE

\* RiskManager.check_exposure_limit; current_exposure is
\* mt5_connector.get_total_exposure(), balance the account's balance
check_exposure_limit(symbol, volume, price, symbol_info, current_exposure, balance) ==
    LET new_exposure == Notional(symbol, volume, price, symbol_info)
        max_exposure == calculate_dynamic_exposure_limit(balance, symbol)
        min_exposure == Notional(symbol, symbol_info.min_volume, price, symbol_info)
    IN  IF current_exposure + new_exposure > max_exposure
        THEN (IF current_exposure + min_exposure > max_exposure THEN FALSE ELSE TRUE)
        ELSE TRUE

GuardSymbols == {"EURUSD", "XAUUSD", "US30"}

\* Entry price of the symbol in points
GuardEntry(symbol) == IF symbol = "US30" THEN 40000 ELSE SizerEntry(symbol)

\* Proposed orders: from the minimum volume to 0.5 lots, on accounts from 20 to
\* 10000 USD; proposed_pct is the exposure proposed to
\* validate_exposure_and_margin, in percent of its max_exposure.
GuardInputs ==
    { [ symbol |-> s, volume |-> v, entry_price |-> GuardEntry(s),
        symbol_info |-> SymbolInfo(s, 1, 1, 0),
        account_info |-> [balance |-> b, margin_free |-> b],
        current_exposure |-> ce,
        max_exposure |-> 100000,
        proposed_exposure |-> 1000 * pp ] :
        s \in GuardSymbols, v \in {1, 10, 20, 50},
        b \in {2000, 50000, 1000000}, ce \in {0, 10000},
        pp \in {50, 100, 105, 110, 111, 150} }

GuardIdle == [stage |-> "idle", accepted |-> FALSE, demand |-> 0, limit |-> 0]

InitGuard ==
    /\ gdIn \in GuardInputs
    /\ gdOut = GuardIdle
    /\ SizerUnused /\ StopsUnused /\ LifeUnused /\ MonitorUnused /\ BotUnused
    /\ PipelineUnused
    /\ ScanUnused
    /\ LoopUnused
    /\ ScorerUnused
    /\ RiskUnused
    /\ VirtualUnused
    /\ ShrinkUnused

\* process_signal decides whether to send the order (main.py 314-370)
GuardInPipeline ==
    /\ gdOut.stage = "idle"
    /\ LET tv == test_volume(gdIn.volume, gdIn.symbol_info)
           margin_required == calculate_margin_required(gdIn.symbol, tv,
                                  gdIn.entry_price, gdIn.symbol_info)
           exposure_limit == get_exposure_limit(gdIn.symbol_info, gdIn.account_info)
       IN  gdOut' = [stage |-> "process_signal",
                     accepted |-> can_execute(tv, gdIn.symbol_info, margin_required,
                                              exposure_limit),
                     demand |-> margin_required, limit |-> exposure_limit]
    /\ UNCHANGED <<gdIn, NotGuard>>

ValidateExposureAndMargin ==
    /\ gdOut.stage = "idle"
    /\ gdOut' = [stage |-> "validate_exposure_and_margin",
                 accepted |-> validate_exposure_and_margin(gdIn.proposed_exposure,
                                                           gdIn.max_exposure),
                 demand |-> gdIn.proposed_exposure, limit |-> gdIn.max_exposure]
    /\ UNCHANGED <<gdIn, NotGuard>>

CheckExposureLimit ==
    /\ gdOut.stage = "idle"
    /\ gdOut' = [stage |-> "check_exposure_limit",
                 accepted |-> check_exposure_limit(gdIn.symbol, gdIn.volume,
                                  gdIn.entry_price, gdIn.symbol_info,
                                  gdIn.current_exposure, gdIn.account_info.balance),
                 demand |-> gdIn.current_exposure
                            + Notional(gdIn.symbol, gdIn.volume, gdIn.entry_price,
                                       gdIn.symbol_info),
                 limit |-> calculate_dynamic_exposure_limit(gdIn.account_info.balance,
                                                            gdIn.symbol)]
    /\ UNCHANGED <<gdIn, NotGuard>>

\* RiskManager.calculate_margin_buffer (the definition of the class, line 722)
calculate_margin_buffer(volume, symbol_info, price, symbol) ==
    LET leverage == IF symbol_info.leverage = 0 THEN 100 ELSE symbol_info.leverage
    IN  Notional(symbol, volume, price, symbol_info) \div leverage

\* The loop of process_signal that lowers the volume one volume_step at a
\* time while the margin exceeds the limit (main.py 1044-1052); retries
\* counts the times the margin is computed again for a smaller volume
RECURSIVE ShrinkWhileOverLimit(_, _, _, _, _)
ShrinkWhileOverLimit(volume, symbol_info, price, exposure_limit, retries) ==
    LET margin_required == calculate_margin_buffer(volume, symbol_info, price,
                                                   symbol_info.symbol)
    IN  IF margin_required > exposure_limit /\ volume > symbol_info.min_volume
        THEN ShrinkWhileOverLimit(
                 Max(volume - symbol_info.volume_step, symbol_info.min_volume),
                 symbol_info, price, exposure_limit, retries + 1)
        ELSE [test_volume |-> volume, margin_required |-> margin_required,
              retries |-> retries]

\* process_signal of the class defined last in main.py decides whether to
\* send the order (main.py 1031-1098)
ShrinkInPipeline ==
    /\ gdOut.stage = "idle"
    /\ LET exposure_limit == calculate_dynamic_exposure_limit(
                                 gdIn.account_info.margin_free, gdIn.symbol)
           fit == ShrinkWhileOverLimit(Min(gdIn.volume, gdIn.symbol_info.max_volume),
                                       gdIn.symbol_info, gdIn.entry_price,
                                       exposure_limit, 0)
           ok == can_execute(fit.test_volume, gdIn.symbol_info, fit.margin_required,
                             exposure_limit)
       IN  gdOut' = [stage |-> "process_signal_shrink",
                     accepted |-> ok,
                     demand |-> fit.margin_required, limit |-> exposure_limit,
                     volume |-> fit.test_volume, retries |-> fit.retries,
                     status |-> IF ok THEN "sent" ELSE "not_executed",
                     logged |-> IF ok THEN "None" ELSE "fondos/exposicion"]
    /\ UNCHANGED <<gdIn, NotGuard>>

NextGuard ==
    \/ GuardInPipeline
    \/ ValidateExposureAndMargin
    \/ CheckExposureLimit
    \/ ShrinkInPipeline

SpecGuard == InitGuard /\ [][NextGuard]_vars

\* C2: an order whose required margin (or exposure) exceeds the exposure
\* limit is never accepted by the Exposure Guard: every accepted order is
\* within the limit.
C2_OverLimitNeverAccepted ==
    (gdOut.stage # "idle" /\ gdOut.accepted) => gdOut.demand <= gdOut.limit

\* C21: when the required margin exceeds the exposure limit, the guard lowers
\* the volume and tries again at most once; an order that still does not fit
\* is rejected with the reason reported.
C21_AtMostOneShrinkRetry ==
    gdOut.stage = "process_signal_shrink" =>
        /\ gdOut.retries <= 1
        /\ ~gdOut.accepted => (gdOut.status = "not_executed" /\ gdOut.logged # "None")

(***************************************************************************)
(* The bot: MrCashondoBot.start_trading (the class that runs when main.py  *)
(* is executed), scan_and_execute, process_signal and the subscription     *)
(* monitor thread, with the signals and trades tables of TradeDatabase.    *)
(* The clock counts minutes; the machine's local time is taken to be UTC.  *)
(***************************************************************************)

\* Scans of the main loop explored
MaxScans == 2

\* A datetime as SQLite compares it, as text: the date, the character
\* between date and time, the time of day.  str(datetime), which the sqlite3
\* adapter stores, puts ' ' (32) there; datetime.isoformat() puts 'T' (84).
StoredTimestamp(t) == <<t \div 1440, 32, t % 1440>>
Isoformat(t) == <<t \div 1440, 84, t % 1440>>

\* a >= b for two texts of this form
TextGeq(a, b) ==
    \/ a[1] > b[1]
    \/ a[1] = b[1] /\ a[2] > b[2]
    \/ a[1] = b[1] /\ a[2] = b[2] /\ a[3] >= b[3]

\* One row of the signals table (prices and confidence are not needed here);
\* generation_params holds the 'reason' of the JSON text, "None" for NULL
SignalRowWith(signal, status, reason) ==
    [symbol |-> signal.symbol, timeframe |-> signal.timeframe,
     signal_type |-> signal.signal_type, status |-> status,
     timestamp |-> StoredTimestamp(signal.timestamp),
     generation_params |-> reason]

\* A row logged without generation_params
SignalRow(signal, status) == SignalRowWith(signal, status, "None")

\* TradeDatabase.log_signal; the new row's id is the length of the table
log_signal(signals, row) == Append(signals, row)

\* TradeDatabase.update_signal_status
update_signal_status(signals, signal_id, status) ==
    [signals EXCEPT ![signal_id].status = status]

\* TradeDatabase.log_trade
log_trade(trades, signal_id, signal, volume) ==
    Append(trades, [signal_id |-> signal_id, symbol |-> signal.symbol,
                    volume |-> volume, status |-> "open"])

\* TradeDatabase.find_duplicate_signal: is there a row to return
find_duplicate_signal(signals, symbol, timeframe, signal_type, window_minutes, now) ==
    LET window_start == Isoformat(now - window_minutes)
    IN  \E i \in 1..Len(signals) :
            /\ signals[i].symbol = symbol
            /\ signals[i].timeframe = timeframe
            /\ signals[i].signal_type = signal_type
            /\ signals[i].status \in {"pending", "executed"}
            /\ TextGeq(signals[i].timestamp, window_start)

\* SignalGenerator.__init__: the instrument types switched on and off
instrument_types_config ==
    [forex |-> TRUE, indices |-> TRUE, metals |-> TRUE, stocks |-> FALSE,
     crypto |-> FALSE, etfs |-> FALSE]

\* any(c in symbol for c in ['USD', 'EUR', 'GBP', 'JPY', ...])
HasCurrencyCode(symbol) == symbol \in {"EURUSD", "USDJPY", "XAUUSD", "XRPUSD"}

\* SignalGenerator._is_symbol_type_enabled: a symbol that matches no enabled
\* type is allowed all the same when forex is enabled (the last return).
is_symbol_type_enabled(symbol) ==
    IF instrument_types_config.forex /\ HasCurrencyCode(symbol) THEN TRUE
    ELSE IF instrument_types_config.metals /\ IsMetalSymbol(symbol) THEN TRUE
    ELSE IF instrument_types_config.indices /\ symbol \in {"US30"} THEN TRUE
    ELSE IF instrument_types_config.stocks /\ ~HasCurrencyCode(symbol) THEN TRUE
    ELSE IF instrument_types_config.crypto /\ symbol \in {"XRPUSD"} THEN TRUE
    ELSE instrument_types_config.forex

\* What send_order returns: the order was filled (retcode 10009), placed as
\* a pending order (10008), or refused (None)
OrderOutcomes == {"done", "placed", "none"}

\* The terminal serves the symbols, or has no trading parameters for them
\* (get_dynamic_trading_params returns {}), or no symbol info
\* (get_symbol_info returns None)
TerminalStates == {"ok", "no_specs", "no_symbol_info"}

\* What MT5 does with the signal that is being processed
Mt5Outcome(terminal, sent) == IF terminal = "ok" THEN sent ELSE terminal

\* What process_signal leaves behind; trace lists the steps it went through
BotResult(signals, trades, broker) ==
    [signals |-> signals, trades |-> trades, broker |-> broker, trace |-> <<>>]

\* The result of the steps that follow, with this step before them
Step(name, r) ==
    Only({ [signals |-> x.signals, trades |-> x.trades, broker |-> x.broker,
            trace |-> <<name>> \o x.trace] : x \in {r} })

\* An order the broker holds; reported records whether the subscription
\* monitor had already found the subscription inactive when it was sent.
BrokerOrder(signal, volume, kind, reported) ==
    [symbol |-> signal.symbol, volume |-> volume, kind |-> kind, reported |-> reported]

\* process_signal, step 4 (lines 314-370): the guard and the order
PsExecute(signal, mt5, volume, sendable, signal_id, signals, trades, broker, reported) ==
    IF ~sendable
    THEN BotResult(update_signal_status(signals, signal_id, "not_executed"), trades, broker)
    ELSE Step("send_order",
    IF mt5 = "done"
    THEN BotResult(update_signal_status(signals, signal_id, "executed"),
                   log_trade(trades, signal_id, signal, volume),
                   Append(broker, BrokerOrder(signal, volume, "position", reported)))
    ELSE IF mt5 = "placed"
    THEN BotResult(update_signal_status(signals, signal_id, "not_executed"), trades,
                   Append(broker, BrokerOrder(signal, volume, "pending", reported)))
    ELSE BotResult(update_signal_status(signals, signal_id, "not_executed"), trades, broker))

\* Steps 2 to 4 without the exposure check
PsSizedUnchecked(signal, stop_loss, mt5, account_info, signal_id, signals, trades, broker, reported) ==
    Step("calculate_position_size",
         PsExecute(signal, mt5, SymbolInfo(signal.symbol, 1, 1, 100).min_volume, TRUE,
                   signal_id, signals, trades, broker, reported))

\* process_signal, steps 2 to 4 (lines 250-370) for a signal with valid stops
PsSized(signal, stop_loss, mt5, account_info, signal_id, signals, trades, broker, reported) ==
    LET symbol_info == SymbolInfo(signal.symbol, 1, 1, 100)
        size == pipeline_position_size(RISK_MODE, signal.symbol, signal.entry_price,
                                       stop_loss, symbol_info, account_info)
        tv == test_volume(size.volume, symbol_info)
        margin_required == calculate_margin_required(signal.symbol, tv,
                               signal.entry_price, symbol_info)
        exposure_limit == get_exposure_limit(symbol_info, account_info)
        checked == Step("exposure_check",
                       PsExecute(signal, mt5, tv,
                           can_execute(tv, symbol_info, margin_required, exposure_limit),
                           signal_id,
                           IF size.adjusted
                           THEN log_signal(signals,
                                    SignalRowWith(signal, "adjusted_min_volume",
                                                  "position_size_min_volume"))
                           ELSE signals,
                           trades, broker, reported))
    IN  Step("calculate_position_size",
             IF size.adjusted
             THEN Step("min_volume_fallback",
                       \* the insert of the adjusted_min_volume row (294) raises: the
                       \* handler at 371-374 logs the error and the call returns
                       IF mt5 = "log_signal_raises"
                       THEN BotResult(signals, trades, broker)
                       ELSE checked)
             ELSE checked)

\* process_signal from the insertion of the pending row on (lines 182-370)
PsLogged(signal, mt5, account_info, signals, trades, broker, reported) ==
    LET signal_id == Len(signals)
        stops == validate_and_adjust_stops(signal.symbol, signal.signal_type,
                     signal.entry_price * 1000, signal.stop_loss * 1000,
                     signal.take_profit * 1000, FALSE,
                     [available |-> mt5 # "no_specs", trade_stops_level |-> 0],
                     CurrentPriceData(signal.entry_price, <<"at", 0>>))
    IN  Step("validate_and_adjust_stops",
        IF ~stops.valid
        THEN BotResult(update_signal_status(signals, signal_id, "invalid_stops"),
                       trades, broker)
        ELSE Step("get_symbol_info",
        IF mt5 = "no_symbol_info"
        THEN BotResult(update_signal_status(signals, signal_id, "no_symbol_info"),
                       trades, broker)
        ELSE PsSized(signal, stops.sl \div 1000, mt5, account_info, signal_id,
                     signals, trades, broker, reported)))

\* A signal dropped without a row
PsRejectedSilently(signal, reason, signals, trades, broker) ==
    BotResult(signals, trades, broker)

\* process_signal, lines 149-161 and 166-180: the signal is dropped and
\* logged as rejected, with the reason in generation_params
PsRejected(signal, reason, signals, trades, broker) ==
    BotResult(log_signal(signals, SignalRowWith(signal, "rejected", reason)),
              trades, broker)

\* MrCashondoBot.process_signal
process_signal(signal, mt5, now, account_info, signals, trades, broker, reported) ==
    Step("find_duplicate_signal",
    IF find_duplicate_signal(signals, signal.symbol, signal.timeframe,
                             signal.signal_type, 60, now)
    THEN BotResult(signals, trades, broker)
    ELSE Step("is_symbol_type_enabled",
    IF ~is_symbol_type_enabled(signal.symbol)
    THEN PsRejected(signal, "symbol_type_not_allowed", signals, trades, broker)
    ELSE Step("confidence_filter",
    IF signal.confidence < 80
    THEN PsRejected(signal, "confidence_below_threshold", signals, trades, broker)
    ELSE Step("log_signal",
         Only({ PsLogged(signal, mt5, account_info, logged, trades, broker, reported)
                : logged \in {log_signal(signals, SignalRow(signal, "pending"))} })))))

\* The (symbol, timeframe) pairs scan_all_symbols visits, in its order
ScanKeys ==
    << [symbol |-> "EURUSD", timeframe |-> "M5"],
       [symbol |-> "EURUSD", timeframe |-> "M15"] >>

\* Confidence of a generated signal, in percent; 0 stands for no signal
Confidences == {70, 90}

\* The TradingSignal analyze_market_data builds at time now
TradingSignal(key, confidence, now) ==
    [symbol |-> key.symbol, timeframe |-> key.timeframe, signal_type |-> "BUY",
     confidence |-> confidence, entry_price |-> SizerEntry(key.symbol),
     stop_loss |-> SizerEntry(key.symbol) - 500,
     take_profit |-> SizerEntry(key.symbol) + 1000, timestamp |-> now]

Found(k, confidence, now) ==
    IF confidence = 0 THEN <<>> ELSE <<TradingSignal(ScanKeys[k], confidence, now)>>

\* The lists scan_all_symbols can return: at most one signal per pair
ScanResults(now) ==
    { Found(1, c1, now) \o Found(2, c2, now) :
        c1 \in {0} \cup Confidences, c2 \in {0} \cup Confidences }

\* Starting points: the clock shows noon of day 0 or midnight of day 1, the
\* account holds 10000 USD or 20 USD, the terminal serves the symbols or not.
\* In the start with balance 0 get_account_info returns {} (no account
\* info): process_signal reads balance and margin_free as 0.
BotStarts ==
    { [now |-> 720, balance |-> 1000000, terminal |-> "ok"],
      [now |-> 720, balance |-> 0, terminal |-> "ok"],
      [now |-> 1440, balance |-> 1000000, terminal |-> "ok"],
      [now |-> 720, balance |-> 2000, terminal |-> "ok"],
      [now |-> 720, balance |-> 1000000, terminal |-> "no_specs"],
      [now |-> 720, balance |-> 1000000, terminal |-> "no_symbol_info"] }

\* start_trading has validated the subscription and started the monitor
\* thread (line 530)
InitBot ==
    /\ \E st \in BotStarts :
           /\ bNow = st.now
           /\ bAccount = [balance |-> st.balance, margin_free |-> st.balance,
                          terminal |-> st.terminal]
    /\ bSignals = <<>>
    /\ bTrades = <<>>
    /\ bBroker = <<>>
    /\ bRunning = FALSE
    /\ bMain = [pc |-> "initialize", queue |-> <<>>, scans |-> 0, connected |-> FALSE,
                monitored |-> 0, open_positions |-> <<>>, managed |-> <<>>]
    /\ bMonitor = [pc |-> "polling", reported |-> FALSE]
    /\ SizerUnused /\ StopsUnused /\ LifeUnused /\ MonitorUnused /\ GuardUnused
    /\ PipelineUnused
    /\ ScanUnused
    /\ LoopUnused
    /\ ScorerUnused
    /\ RiskUnused
    /\ VirtualUnused
    /\ ShrinkUnused

\* start_trading, lines 533-536: initialize_components connects to MT5
\* (481) and returns False when the connection or a later step fails
InitializeComponents ==
    /\ bMain.pc = "initialize"
    /\ \E ok \in BOOLEAN, connected \in BOOLEAN :
           IF ok
           THEN /\ connected
                /\ bRunning' = TRUE
                /\ bMain' = [bMain EXCEPT !.pc = "scan", !.connected = TRUE]
           ELSE /\ bRunning' = bRunning
                /\ bMain' = [bMain EXCEPT !.pc = "returned", !.connected = connected]
    /\ UNCHANGED <<bNow, bAccount, bSignals, bTrades, bBroker, bMonitor, NotBot>>

\* scan_and_execute, up to the list of signals (lines 380-389)
ScanAndExecute ==
    /\ bMain.pc = "scan"
    /\ \E found \in ScanResults(bNow) :
           bMain' = [pc |-> "process", queue |-> found, scans |-> bMain.scans + 1,
                     connected |-> bMain.connected, monitored |-> bMain.monitored,
                     open_positions |-> bMain.open_positions, managed |-> bMain.managed]
    /\ UNCHANGED <<bNow, bAccount, bSignals, bTrades, bBroker, bRunning, bMonitor, NotBot>>

\* scan_and_execute, one turn of "for signal in signals: process_signal(signal)"
ProcessSignal ==
    /\ bMain.pc = "process"
    /\ bMain.queue # <<>>
    /\ \E sent \in OrderOutcomes :
           LET r == process_signal(Head(bMain.queue),
                                   Mt5Outcome(bAccount.terminal, sent), bNow, bAccount,
                                   bSignals, bTrades, bBroker, bMonitor.reported)
           IN  /\ bSignals' = r.signals
               /\ bTrades' = r.trades
               /\ bBroker' = r.broker
    /\ bMain' = [bMain EXCEPT !.queue = Tail(@)]
    /\ UNCHANGED <<bNow, bAccount, bRunning, bMonitor, NotBot>>

\* The scan is over; monitor_positions hands every entry of
\* self.open_positions (set to [] in __init__ and appended to nowhere) to
\* manage_partial_and_trailing, and last_scan_time is set.
FinishScan ==
    /\ bMain.pc = "process"
    /\ bMain.queue = <<>>
    /\ bMain' = [bMain EXCEPT !.pc = "loop", !.monitored = @ + 1,
                              !.managed = bMain.open_positions]
    /\ UNCHANGED <<bNow, bAccount, bSignals, bTrades, bBroker, bRunning, bMonitor, NotBot>>

\* "while self.running": the loop sleeps until 15 minutes have passed
WaitForScan ==
    /\ bMain.pc = "loop"
    /\ bRunning
    /\ bMain.scans < MaxScans
    /\ bNow' = bNow + 15
    /\ bMain' = [bMain EXCEPT !.pc = "scan"]
    /\ UNCHANGED <<bAccount, bSignals, bTrades, bBroker, bRunning, bMonitor, NotBot>>

\* "while self.running" finds the flag cleared
LoopExit ==
    /\ bMain.pc = "loop"
    /\ ~bRunning
    /\ bMain' = [bMain EXCEPT !.pc = "exited"]
    /\ UNCHANGED <<bNow, bAccount, bSignals, bTrades, bBroker, bRunning, bMonitor, NotBot>>

\* The monitor thread (lines 522-528) finds the subscription not active
SubscriptionMonitor ==
    /\ bMonitor.pc = "polling"
    /\ bMonitor' = [pc |-> "exited", reported |-> TRUE]
    /\ bRunning' = FALSE
    /\ UNCHANGED <<bNow, bAccount, bSignals, bTrades, bBroker, bMain, NotBot>>

\* The first scan (546-549) runs before the loop and its inner try
InInitialScan ==
    \/ bMain.pc = "scan" /\ bMain.scans = 0
    \/ bMain.pc = "process" /\ bMain.scans = 1

\* Ctrl-C.  Inside the loop it is caught at 585: stop_trading clears the flag
\* and disconnects.  During the first scan no handler catches it
\* (KeyboardInterrupt is not an Exception) and start_trading is left at once.
KeyboardInterrupt ==
    /\ bMain.pc \in {"scan", "process", "loop"}
    /\ IF InInitialScan
       THEN /\ bMain' = [bMain EXCEPT !.pc = "interrupted", !.queue = <<>>]
            /\ bRunning' = bRunning
       ELSE /\ bMain' = [bMain EXCEPT !.pc = "exited", !.queue = <<>>,
                                      !.connected = FALSE]
            /\ bRunning' = FALSE
    /\ UNCHANGED <<bNow, bAccount, bSignals, bTrades, bBroker, bMonitor, NotBot>>

\* An exception outside the loop's own handler, before the loop is entered:
\* the handler at 594-600 disconnects
CriticalError ==
    /\ bMain.pc = "scan"
    /\ bMain.scans = 0
    /\ bMain' = [bMain EXCEPT !.pc = "exited", !.connected = FALSE]
    /\ UNCHANGED <<bNow, bAccount, bSignals, bTrades, bBroker, bRunning, bMonitor, NotBot>>

\* The broker closes a position (stop or target hit) or drops a pending order
PositionCloses ==
    /\ \E i \in 1..Len(bBroker) :
           bBroker' = SubSeq(bBroker, 1, i - 1) \o SubSeq(bBroker, i + 1, Len(bBroker))
    /\ UNCHANGED <<bNow, bAccount, bSignals, bTrades, bRunning, bMain, bMonitor, NotBot>>

NextBot ==
    \/ InitializeComponents
    \/ ScanAndExecute
    \/ ProcessSignal
    \/ FinishScan
    \/ WaitForScan
    \/ LoopExit
    \/ SubscriptionMonitor
    \/ KeyboardInterrupt
    \/ CriticalError
    \/ PositionCloses

SpecBot == InitBot /\ [][NextBot]_vars

\* RiskParameters.max_open_positions
max_open_positions == 3

\* Indices of the open positions the broker holds, for one symbol or for all
OpenPositions(broker) == {i \in 1..Len(broker) : broker[i].kind = "position"}
OpenPositionsOf(broker, symbol) ==
    {i \in OpenPositions(broker) : broker[i].symbol = symbol}

\* C3: at every point there is at most one open position per symbol and at
\* most max_open_positions open positions in all.
C3_PositionCapsHold ==
    /\ \A k \in 1..Len(ScanKeys) :
           Cardinality(OpenPositionsOf(bBroker, ScanKeys[k].symbol)) <= 1
    /\ Cardinality(OpenPositions(bBroker)) <= max_open_positions

\* The minute a row's timestamp stands for
RowMinutes(row) == row.timestamp[1] * 1440 + row.timestamp[3]

\* C7: signals with the same (symbol, timeframe, direction) processed within
\* the dedup window of 60 minutes leave exactly one row in the signals
\* table: no two rows of one key lie within the window of each other.
C7_OneRowPerKeyInWindow ==
    \A i, j \in 1..Len(bSignals) :
        (/\ i < j
         /\ bSignals[i].symbol = bSignals[j].symbol
         /\ bSignals[i].timeframe = bSignals[j].timeframe
         /\ bSignals[i].signal_type = bSignals[j].signal_type)
            => RowMinutes(bSignals[j]) - RowMinutes(bSignals[i]) > 60

\* C8: no order reaches the broker after the subscription monitor has found
\* the subscription not active.
C8_NoOrderAfterInactive ==
    \A i \in 1..Len(bBroker) : ~bBroker[i].reported

\* C22: whenever start_trading has left the trading loop (Ctrl-C, the flag
\* cleared by the subscription monitor, critical error), the MT5 session has
\* been disconnected.
C22_DisconnectedOnEveryExit ==
    bMain.pc = "exited" => ~bMain.connected

\* C34: a shutdown request of the subscription monitor (running set to
\* False) is never lost: whenever the main thread is at the head of its loop
\* after the request, the flag is cleared and the loop stops.
C34_ShutdownRequestNotLost ==
    (bMonitor.pc = "exited" /\ bMain.pc = "loop") => ~bRunning

\* C35: every position opened by an executed order is passed to the
\* lifecycle manager on each monitoring cycle that follows, until it is
\* closed: after a cycle, each position the broker holds was managed in it.
C35_OpenPositionsAreManaged ==
    bMain.pc = "loop" =>
        \A i \in OpenPositions(bBroker) :
            \E j \in 1..Len(bMain.managed) :
                bMain.managed[j].symbol = bBroker[i].symbol

\* get_account_info has returned {}
NoAccountInfo == bAccount.balance = 0 /\ bAccount.margin_free = 0

PipelineSymbols == {"EURUSD", "XRPUSD"}

\* The time of the call: ten past midnight (UTC) of day 1
PipelineNow == 1450

\* The signals table before the call: empty, or holding a row of the same
\* symbol, timeframe and direction logged ten minutes earlier
PriorRows(signal) ==
    { <<>>,
      << SignalRow([signal EXCEPT !.timestamp = PipelineNow - 10], "executed") >>,
      << SignalRowWith([signal EXCEPT !.timestamp = PipelineNow - 10], "rejected",
                       "confidence_below_threshold") >> }

\* Accounts: 10000 USD or 20 USD of balance, the free margin equal to the
\* balance or down to 5 USD
PipelineAccounts ==
    { [balance |-> b, margin_free |-> f, terminal |-> t] :
        b \in {1000000, 2000}, f \in {1000000, 2000, 500}, t \in TerminalStates }

PipelineInputs ==
    UNION { { [ signal |-> TradingSignal([symbol |-> s, timeframe |-> "M5"], c,
                                         PipelineNow),
                account_info |-> a, signals |-> rows, sent |-> sent ] :
                rows \in PriorRows(TradingSignal([symbol |-> s, timeframe |-> "M5"],
                                                 c, PipelineNow)) } :
            s \in PipelineSymbols, c \in {55, 75, 90},
            a \in {x \in PipelineAccounts : x.margin_free <= x.balance},
            sent \in OrderOutcomes }

InitPipeline ==
    /\ plIn \in PipelineInputs
    /\ plOut = [stage |-> "idle", signals |-> plIn.signals, trades |-> <<>>,
                broker |-> <<>>, trace |-> <<>>]
    /\ SizerUnused /\ StopsUnused /\ LifeUnused /\ MonitorUnused /\ GuardUnused
    /\ BotUnused
    /\ ScanUnused
    /\ LoopUnused
    /\ ScorerUnused
    /\ RiskUnused
    /\ VirtualUnused
    /\ ShrinkUnused

\* scan_and_execute hands the signal to process_signal
ProcessOneSignal ==
    /\ plOut.stage = "idle"
    /\ \E r \in { process_signal(plIn.signal,
                                  Mt5Outcome(plIn.account_info.terminal, plIn.sent),
                                  PipelineNow, plIn.account_info, plIn.signals,
                                  <<>>, <<>>, FALSE) } :
           plOut' = [stage |-> "processed", signals |-> r.signals,
                     trades |-> r.trades, broker |-> r.broker, trace |-> r.trace]
    /\ UNCHANGED <<plIn, NotPipeline>>

\* The same call while the signals table refuses the insert of the
\* adjusted_min_volume row (sqlite3.OperationalError): process_signal ends in
\* its outer exception handler
ProcessOneSignalInsertRaises ==
    /\ plOut.stage = "idle"
    /\ plIn.account_info.terminal = "ok"
    /\ \E r \in { process_signal(plIn.signal, "log_signal_raises",
                                  PipelineNow, plIn.account_info, plIn.signals,
                                  <<>>, <<>>, FALSE) } :
           plOut' = [stage |-> IF \E i \in 1..Len(r.trace) :
                                      r.trace[i] = "min_volume_fallback"
                               THEN "raised" ELSE "processed",
                     signals |-> r.signals,
                     trades |-> r.trades, broker |-> r.broker, trace |-> r.trace]
    /\ UNCHANGED <<plIn, NotPipeline>>

NextPipeline ==
    \/ ProcessOneSignal
    \/ ProcessOneSignalInsertRaises

SpecPipeline == InitPipeline /\ [][NextPipeline]_vars

\* Helpers to read a trace
InTrace(name) == \E i \in 1..Len(plOut.trace) : plOut.trace[i] = name
Before(a, b) ==
    \E i, j \in 1..Len(plOut.trace) :
        i < j /\ plOut.trace[i] = a /\ plOut.trace[j] = b
LastStep == IF plOut.trace = <<>> THEN "none" ELSE plOut.trace[Len(plOut.trace)]

\* The rows process_signal added to the signals table
NewRows == {i \in 1..Len(plOut.signals) : i > Len(plIn.signals)}

\* The duplicate filter discards the signal
IsDuplicate ==
    find_duplicate_signal(plIn.signals, plIn.signal.symbol, plIn.signal.timeframe,
                          plIn.signal.signal_type, 60, PipelineNow)

\* No order and one new row: rejected, reason confidence_below_threshold
RejectedForConfidence ==
    /\ plOut.broker = <<>>
    /\ plOut.signals = Append(plIn.signals,
           SignalRowWith(plIn.signal, "rejected", "confidence_below_threshold"))

\* C32: every row process_signal inserted as 'pending' has a final status
\* (executed, not_executed, invalid_stops, no_symbol_info or error) when the
\* call returns, also when the call ended in an exception handler.
C32_NoPendingRowAfterReturn ==
    plOut.stage \in {"processed", "raised"} =>
        \A i \in NewRows : plOut.signals[i].status # "pending"

\* C33: the signal is marked 'executed' and a trade row with its signal id
\* is logged if and only if send_order returned a result (the broker holds
\* its order) rather than None.
C33_ExecutedIffOrderAccepted ==
    (plOut.stage = "processed" /\ InTrace("log_signal")) =>
        LET signal_id == Len(plIn.signals) + 1
        IN  (/\ plOut.signals[signal_id].status = "executed"
             /\ \E i \in 1..Len(plOut.trades) : plOut.trades[i].signal_id = signal_id)
                <=> plOut.broker # <<>>

\* C13 as stated: every signal with a confidence below the threshold (0.8)
\* results in no order and in a new row with status 'rejected' and reason
\* 'confidence_below_threshold'.
C13_EveryLowConfidenceSignalRecorded ==
    (plOut.stage = "processed" /\ plIn.signal.confidence < 80) =>
        RejectedForConfidence

\* C13, amended: a signal with a confidence below the threshold (0.8) that
\* the duplicate filter does not discard results in no order and in a new
\* row with status 'rejected' and reason 'confidence_below_threshold'.
C13_LowConfidenceRejectedWithReason ==
    (plOut.stage = "processed" /\ plIn.signal.confidence < 80 /\ ~IsDuplicate) =>
        RejectedForConfidence

C13_Witness ==
    /\ plOut.stage = "processed"
    /\ plIn.signal.confidence = 55
    /\ ~IsDuplicate
    /\ LastStep = "confidence_filter"
    /\ Len(plOut.signals) = Len(plIn.signals) + 1

\* The signal was dropped on a policy ground: by the symbol-type filter, by
\* the confidence filter, or by the exposure check
PolicyDropped ==
    LastStep \in {"is_symbol_type_enabled", "confidence_filter", "exposure_check"}

\* C14: every signal dropped for a policy reason leaves a row that records
\* the drop with an explicit reason.
C14_PolicyDropsCarryReason ==
    (plOut.stage = "processed" /\ PolicyDropped) =>
        \E i \in NewRows :
            /\ plOut.signals[i].status \in {"rejected", "not_executed"}
            /\ plOut.signals[i].generation_params # "None"

\* C18: an order is dispatched for a signal only after the signal has been
\* stop-adjusted, sized and exposure-checked.
C18_EvaluatedBeforeDispatch ==
    (plOut.stage = "processed" /\ (InTrace("send_order") \/ plOut.broker # <<>>)) =>
        /\ Before("validate_and_adjust_stops", "send_order")
        /\ Before("calculate_position_size", "send_order")
        /\ Before("exposure_check", "send_order")

C18_Witness ==
    /\ plOut.stage = "processed"
    /\ LastStep = "send_order"
    /\ plOut.broker # <<>>

\* C19: when position sizing fails, the signal is not aborted: processing
\* goes on to the exposure check with the symbol's minimum volume, and an
\* order that is sent carries that volume.
C19_SizingFailureUsesMinVolume ==
    (plOut.stage = "processed" /\ InTrace("min_volume_fallback")) =>
        /\ Before("min_volume_fallback", "exposure_check")
        /\ \A i \in 1..Len(plOut.broker) :
               plOut.broker[i].volume = SymbolInfo(plIn.signal.symbol, 1, 1, 100).min_volume
        /\ \E i \in NewRows : plOut.signals[i].status \in {"executed", "not_executed"}

C19_Witness ==
    /\ plOut.stage = "processed"
    /\ InTrace("min_volume_fallback")
    /\ Len(plOut.broker) = 1
    /\ plOut.broker[1].volume = 1

\* C20: no order is dispatched when the account's free margin is below
\* 10 USD.
C20_NoOrderBelowMarginFloor ==
    (plOut.stage = "processed" /\ plIn.account_info.margin_free < 1000) =>
        (~InTrace("send_order") /\ plOut.broker = <<>>)

(***************************************************************************)
(* SpecScan: one scan cycle.  scan_all_symbols visits every (symbol,       *)
(* timeframe) pair; what the terminal and the analysis do with a pair is   *)
(* drawn at each visit.  Then scan_and_execute calls process_signal for    *)
(* every signal of the list, the terminal's answer drawn for each.         *)
(***************************************************************************)

\* self.symbols, all of them tradeable (is_symbol_tradeable), and
\* self.timeframes
ScanSymbols == <<"EURUSD", "XAUUSD">>
ScanTimeframes == <<"M5", "M15", "H1">>

\* The pairs in the order of the two nested loops
ScanPairs ==
    [ k \in 1..(Len(ScanSymbols) * Len(ScanTimeframes)) |->
        [symbol |-> ScanSymbols[((k - 1) \div Len(ScanTimeframes)) + 1],
         timeframe |-> ScanTimeframes[((k - 1) % Len(ScanTimeframes)) + 1]] ]

\* What one visit of a pair ends with: get_market_data returns None
\* (no rates, or fewer than 2 bars), the analysis raises (too few bars for
\* close[-5]), it returns None, or it returns a signal
VisitOutcomes == {"no_data", "raises", "no_signal", "signal"}

\* The visits that end in the handlers of lines 1114-1116 and 1121-1123
VisitErrors == {"no_data", "raises"}

\* A scan that gives up at the first visit that fails
AfterVisitAborting(k, outcome) ==
    IF outcome \in VisitErrors THEN Len(ScanPairs) + 1 ELSE k + 1

\* The pair the loops go to after the visit of pair k: the next one, also
\* after a visit that failed (continue, lines 1116 and 1123)
AfterVisit(k, outcome) == k + 1

\* The time of the cycle
ScanNow == 720

ScanAccounts ==
    { [balance |-> b, margin_free |-> b, terminal |-> "ok"] : b \in {1000000, 2000} }

ScanIdle(account) ==
    [phase |-> "scan", k |-> 1, account |-> account,
     visited |-> {}, found |-> <<>>, generated |-> 0, scan_errors |-> 0,
     handled |-> 0, process_errors |-> 0, rows |-> <<>>, orders |-> 0]

InitScan ==
    /\ \E a \in ScanAccounts : scScan = ScanIdle(a)
    /\ SizerUnused /\ StopsUnused /\ LifeUnused /\ MonitorUnused /\ GuardUnused
    /\ BotUnused
    /\ PipelineUnused
    /\ LoopUnused
    /\ ScorerUnused
    /\ RiskUnused
    /\ VirtualUnused
    /\ ShrinkUnused

\* scan_all_symbols, one turn of the inner loop (lines 1111-1123)
VisitPair ==
    /\ scScan.phase = "scan"
    /\ scScan.k <= Len(ScanPairs)
    /\ \E outcome \in VisitOutcomes :
           scScan' = [scScan EXCEPT
               !.k = AfterVisit(@, outcome),
               !.visited = @ \cup {scScan.k},
               !.found = IF outcome = "signal"
                         THEN Append(@, TradingSignal(ScanPairs[scScan.k], 90, ScanNow))
                         ELSE @,
               !.generated = IF outcome = "signal" THEN @ + 1 ELSE @,
               !.scan_errors = IF outcome \in VisitErrors THEN @ + 1 ELSE @]
    /\ UNCHANGED NotScan

\* scan_all_symbols returns the list (1124-1125); scan_and_execute returns
\* when it is empty (386-388) and otherwise starts its loop (390)
ScanReturns ==
    /\ scScan.phase = "scan"
    /\ scScan.k > Len(ScanPairs)
    /\ scScan' = [scScan EXCEPT
           !.phase = IF scScan.found = <<>> THEN "done" ELSE "process"]
    /\ UNCHANGED NotScan

\* A call of process_signal that ran into a missing symbol spec or a sizing
\* error: the steps it went through tell
RecoveredIn(mt5, r) ==
    \/ mt5 \in {"no_specs", "no_symbol_info"}
    \/ \E i \in 1..Len(r.trace) : r.trace[i] = "min_volume_fallback"

\* scan_and_execute, one turn of "for signal in signals" (390-391)
ProcessFound ==
    /\ scScan.phase = "process"
    /\ scScan.handled < Len(scScan.found)
    /\ \E terminal \in TerminalStates, sent \in OrderOutcomes :
           LET mt5 == Mt5Outcome(terminal, sent)
               r == Only({ x : x \in { process_signal(
                               scScan.found[scScan.handled + 1], mt5, ScanNow,
                               scScan.account, scScan.rows, <<>>, <<>>, FALSE) } })
           IN  scScan' = [scScan EXCEPT
                   !.handled = @ + 1,
                   !.rows = r.signals,
                   !.orders = @ + Len(r.broker),
                   !.process_errors = IF RecoveredIn(mt5, r) THEN @ + 1 ELSE @]
    /\ UNCHANGED NotScan

\* The loop of scan_and_execute is over (392)
CycleEnds ==
    /\ scScan.phase = "process"
    /\ scScan.handled = Len(scScan.found)
    /\ scScan' = [scScan EXCEPT !.phase = "done"]
    /\ UNCHANGED NotScan

NextScan == VisitPair \/ ScanReturns \/ ProcessFound \/ CycleEnds

SpecScan == InitScan /\ [][NextScan]_vars

\* C23: when the scan cycle is over, every (symbol, timeframe) pair has been
\* visited and every signal generated has gone through process_signal,
\* whatever recoverable errors (no data, too little history, missing symbol
\* spec, sizing error) the cycle met on the way.
C23_CycleCompletesDespiteErrors ==
    scScan.phase = "done" =>
        /\ scScan.visited = 1..Len(ScanPairs)
        /\ scScan.handled = scScan.generated
        /\ Len(scScan.found) = scScan.generated

\* A finished cycle that met errors while scanning and while processing and
\* went on to handle a signal and place an order
C23_Witness ==
    /\ scScan.phase = "done"
    /\ scScan.scan_errors >= 2
    /\ scScan.process_errors >= 1
    /\ scScan.handled >= 3
    /\ scScan.orders >= 1

(***************************************************************************)
(* SpecLoop: the main loop of start_trading (main.py 553-593).  Each turn  *)
(* either runs through and sleeps 5 seconds, or an exception of some kind  *)
(* reaches the handler at 589, which sleeps 60 seconds.                    *)
(***************************************************************************)

\* Turns of the loop explored
MaxTurns == 5

\* Kinds of external failure that reach the handler: the terminal, the
\* message service
FailureKinds == {"mt5", "telegram"}

\* time.sleep(5) at the end of a turn, time.sleep(60) in the handler
sleep_after_turn == 5
sleep_after_error == 60

\* Seconds the loop sleeps after a turn that failed, given the number of
\* consecutive failures of that kind so far, this one included
SleepAfterFailure(consecutive) == sleep_after_error

InitLoop ==
    /\ lpLoop = [turns |-> <<>>, consecutive |-> 0, kind |-> "none"]
    /\ SizerUnused /\ StopsUnused /\ LifeUnused /\ MonitorUnused /\ GuardUnused
    /\ BotUnused
    /\ PipelineUnused
    /\ ScanUnused
    /\ ScorerUnused
    /\ RiskUnused
    /\ VirtualUnused
    /\ ShrinkUnused

\* A turn of the loop that runs through (554-584)
TurnCompletes ==
    /\ Len(lpLoop.turns) < MaxTurns
    /\ lpLoop' = [turns |-> Append(lpLoop.turns,
                                   [failed |-> FALSE, kind |-> "none", consecutive |-> 0,
                                    slept |-> sleep_after_turn]),
                  consecutive |-> 0, kind |-> "none"]
    /\ UNCHANGED NotLoop

\* A turn of the loop that raises (589-593)
TurnFails ==
    /\ Len(lpLoop.turns) < MaxTurns
    /\ \E kind \in FailureKinds :
           LET consecutive == IF lpLoop.kind = kind THEN lpLoop.consecutive + 1 ELSE 1
           IN  lpLoop' = [turns |-> Append(lpLoop.turns,
                                          [failed |-> TRUE, kind |-> kind,
                                           consecutive |-> consecutive,
                                           slept |-> SleepAfterFailure(consecutive)]),
                         consecutive |-> consecutive, kind |-> kind]
    /\ UNCHANGED NotLoop

NextLoop == TurnCompletes \/ TurnFails

SpecLoop == InitLoop /\ [][NextLoop]_vars

\* C24: the sleep after the third or a later consecutive failure of one kind
\* is longer than the sleep after the first failure of that run of failures.
C24_BacksOffAfterThreeFailures ==
    \A i, j \in 1..Len(lpLoop.turns) :
        (/\ lpLoop.turns[j].failed
         /\ lpLoop.turns[j].consecutive >= 3
         /\ i = j - lpLoop.turns[j].consecutive + 1)
            => lpLoop.turns[j].slept > lpLoop.turns[i].slept

----------------------------------------------------------------------------
(***************************************************************************)
(* SpecScorer: SignalGenerator.calculate_signal_score and                  *)
(* SignalGenerator.analyze_market_data (the class at signal_generator.py   *)
(* 728) on one bar series.  Prices, EMAs, the ATR and the spread are in    *)
(* points; the series is given by the values the indicator routines        *)
(* (calculate_ema, calculate_rsi, TechnicalIndicators.atr) return for it.  *)
(***************************************************************************)

\* max_score of calculate_signal_score
max_score == 100

\* market_context['adx_threshold']
adx_threshold == 17

\* The score from which analyze_market_data builds a signal
signal_threshold == 70

\* An RSI reading: a value, or None when calculate_rsi returns no bar
RsiAt(v) == <<"at", v>>

RsiNone == <<"none", 0>>

\* TechnicalIndicators.adx: the constant 25.0 on every bar
adx(close) == 25

\* Lines 1381-1387: the trend calculate_signal_score fills in when the
\* indicators carry none
classify_trend(price, ema_200_last) ==
    IF price > ema_200_last THEN "bullish"
    ELSE IF price < ema_200_last THEN "bearish"
    ELSE "neutral"

\* TechnicalIndicators.calculate_indicators.  The dict has no 'spread',
\* 'volume' or 'volume_ma' key: the fields below hold what
\* indicators.get(key, default) returns for them.
calculate_indicators(market_data) ==
    [ ema_20            |-> market_data.ema_20,
      ema_50            |-> market_data.ema_50,
      ema_200           |-> market_data.ema_200,
      atr               |-> market_data.atr,
      adx               |-> adx(market_data.close),
      current_ema_cross |-> /\ market_data.close > market_data.ema_50
                            /\ market_data.close > market_data.ema_200,
      recent_ema_cross  |-> /\ market_data.close_5 > market_data.ema_50_5
                            /\ market_data.close_5 > market_data.ema_200_5,
      ema_convergence   |-> Abs(market_data.ema_50 - market_data.ema_200) < 50,
      ema_acceleration  |-> market_data.ema_50 > market_data.ema_50_5,
      current_rsi       |-> market_data.rsi[1],
      prev_rsi          |-> market_data.rsi[2],
      trend             |-> IF market_data.ema_20 > market_data.ema_50
                            THEN "bullish" ELSE "bearish",
      spread            |-> 0,
      volume            |-> 0,
      volume_ma         |-> 1 ]

\* An indicators dict as a caller other than analyze_market_data may pass
\* it: with 'spread', 'volume', 'volume_ma' and its own 'adx'
WithCallerKeys(indicators, keys) ==
    [indicators EXCEPT !.spread = keys.spread, !.volume = keys.volume,
                       !.volume_ma = keys.volume_ma, !.adx = keys.adx]

\* SignalGenerator.calculate_signal_score
calculate_signal_score(indicators, market_context) ==
    LET price == market_context.price
        trend_points ==
            IF indicators.ema_200 * 998 < price * 1000 THEN 25
            ELSE IF price * 1000 > indicators.ema_50 * 1003 THEN 15
            ELSE 0
        ema_points ==
            IF \/ indicators.current_ema_cross \/ indicators.recent_ema_cross
               \/ indicators.ema_convergence \/ indicators.ema_acceleration
            THEN 20 ELSE 0
        current_rsi == indicators.current_rsi
        prev_rsi == indicators.prev_rsi
        rsi_points ==
            IF current_rsi[1] = "at" /\ 42 <= current_rsi[2] /\ current_rsi[2] <= 50
            THEN 15
            ELSE IF /\ current_rsi[1] = "at" /\ prev_rsi[1] = "at"
                    /\ current_rsi[2] > prev_rsi[2] /\ current_rsi[2] > 48
            THEN 10
            ELSE 0
        atr_points ==
            IF /\ indicators.atr * 100 > market_context.atr_min_threshold * 125
               /\ indicators.adx * 10 > market_context.adx_threshold * 12
            THEN 20
            ELSE IF /\ indicators.atr * 10 > market_context.atr_min_threshold * 11
                    /\ indicators.adx > market_context.adx_threshold
            THEN 10
            ELSE 0
        volume_points ==
            IF indicators.volume * 10 > 12 * indicators.volume_ma THEN 10
            ELSE IF indicators.volume > indicators.volume_ma THEN 5
            ELSE 0
        spread_penalty ==
            IF indicators.spread * 10 > 3 * indicators.atr THEN 10 ELSE 0
    IN  Min(trend_points + ema_points + rsi_points + atr_points + volume_points
                - spread_penalty,
            max_score)

\* analyze_market_data returning None
NoSignal ==
    [kind |-> "None", signal_type |-> "None", entry_price |-> 0, stop_loss |-> 0,
     take_profit |-> 0, confidence |-> 0]

\* Lines 1450-1454
MarketContext(market_data) ==
    [price |-> market_data.close, atr_min_threshold |-> market_data.atr_min_threshold,
     adx_threshold |-> adx_threshold]

\* Lines 1459-1484: the TradingSignal built for a score; confidence is
\* score / 100, kept in hundredths
BuildSignal(market_data, indicators, score) ==
    LET signal_type == IF indicators.trend = "bullish" THEN "BUY" ELSE "SELL"
        entry == market_data.close
        sl_dist == (indicators.atr * 17) \div 10
        tp_dist == (indicators.atr * 28) \div 10
    IN  [kind |-> "TradingSignal", signal_type |-> signal_type, entry_price |-> entry,
         stop_loss |-> IF signal_type = "BUY" THEN entry - sl_dist ELSE entry + sl_dist,
         take_profit |-> IF signal_type = "BUY" THEN entry + tp_dist ELSE entry - tp_dist,
         confidence |-> score]

\* An analysis that builds a signal for every series in trading hours
analyze_market_data_any_score(market_data) ==
    IF ~market_data.optimal_hour THEN NoSignal
    ELSE BuildSignal(market_data, calculate_indicators(market_data),
                     calculate_signal_score(calculate_indicators(market_data),
                                            MarketContext(market_data)))

\* SignalGenerator.analyze_market_data
analyze_market_data(market_data) ==
    IF ~market_data.optimal_hour THEN NoSignal
    ELSE LET indicators == calculate_indicators(market_data)
             score == calculate_signal_score(indicators, MarketContext(market_data))
         IN  IF score >= signal_threshold
             THEN BuildSignal(market_data, indicators, score)
             ELSE NoSignal

\* RSI of the last two bars
RsiReadings ==
    { <<RsiAt(45), RsiAt(44)>>, <<RsiAt(55), RsiAt(50)>>, <<RsiAt(30), RsiAt(30)>>,
      <<RsiNone, RsiNone>> }

\* Keys a caller may add to the indicators: spread in points, volume and
\* its moving average in ticks, and the ADX
CallerKeys ==
    [spread : {0, 40}, volume : {0, 110, 125}, volume_ma : {100}, adx : {18, 25}]

InitScorer ==
    /\ \E close \in {115000, 117870, 118500}, close_5 \in {115400, 118100},
          ema_20 \in {117569, 117900}, ema_50 \in {117728, 118020},
          ema_200 \in {115568, 118000}, ema_50_5 \in {117700, 117750},
          rsi \in RsiReadings, atr \in {100, 120, 130}, optimal_hour \in BOOLEAN,
          keys \in CallerKeys :
           sgCall = [op |-> "idle",
                     market_data |-> [close |-> close, close_5 |-> close_5,
                                      ema_20 |-> ema_20, ema_50 |-> ema_50,
                                      ema_200 |-> ema_200, ema_50_5 |-> ema_50_5,
                                      ema_200_5 |-> ema_200, rsi |-> rsi, atr |-> atr,
                                      atr_min_threshold |-> 100,
                                      optimal_hour |-> optimal_hour],
                     keys |-> keys, score |-> 0, signal |-> NoSignal]
    /\ SizerUnused /\ StopsUnused /\ LifeUnused /\ MonitorUnused /\ GuardUnused
    /\ BotUnused
    /\ PipelineUnused
    /\ ScanUnused
    /\ LoopUnused
    /\ RiskUnused
    /\ VirtualUnused
    /\ ShrinkUnused

\* One call of calculate_signal_score on indicators with the caller's keys
CalculateSignalScore ==
    /\ sgCall.op = "idle"
    /\ sgCall' = [sgCall EXCEPT
           !.op = "calculate_signal_score",
           !.score = calculate_signal_score(
                         WithCallerKeys(calculate_indicators(sgCall.market_data),
                                        sgCall.keys),
                         MarketContext(sgCall.market_data))]
    /\ UNCHANGED NotScorer

\* One call of analyze_market_data on the series
AnalyzeMarketData ==
    /\ sgCall.op = "idle"
    /\ sgCall' = [sgCall EXCEPT
           !.op = "analyze_market_data",
           !.score = calculate_signal_score(calculate_indicators(sgCall.market_data),
                                            MarketContext(sgCall.market_data)),
           !.signal = analyze_market_data(sgCall.market_data)]
    /\ UNCHANGED NotScorer

NextScorer ==
    \/ CalculateSignalScore
    \/ AnalyzeMarketData

SpecScorer == InitScorer /\ [][NextScorer]_vars

\* C26: analyze_market_data returns a signal only for a score of at least
\* the threshold; for every score below it the result is None.
C26_SignalOnlyAtThreshold ==
    sgCall.op = "analyze_market_data" =>
        /\ sgCall.signal.kind = "TradingSignal" => sgCall.score >= signal_threshold
        /\ sgCall.score < signal_threshold => sgCall.signal = NoSignal

\* A series scoring exactly the threshold got a signal
C26_Witness ==
    /\ sgCall.op = "analyze_market_data"
    /\ sgCall.score = signal_threshold
    /\ sgCall.signal.kind = "TradingSignal"

\* C27: the score calculate_signal_score returns lies within 0..100 for
\* every indicators dict and market context, and the confidence of an
\* emitted signal within 0..1 (0..100 hundredths).
C27_ScoreWithinBounds ==
    /\ sgCall.op = "calculate_signal_score" =>
           (0 <= sgCall.score /\ sgCall.score <= max_score)
    /\ sgCall.signal.kind = "TradingSignal" =>
           (0 <= sgCall.signal.confidence /\ sgCall.signal.confidence <= 100)

\* C28: an emitted signal is a BUY when the price is above the long EMA
\* (bullish) and a SELL when it is below it (bearish).
C28_DirectionFollowsLongEma ==
    sgCall.signal.kind = "TradingSignal" =>
        LET trend == classify_trend(sgCall.market_data.close, sgCall.market_data.ema_200)
        IN  /\ trend = "bullish" => sgCall.signal.signal_type = "BUY"
            /\ trend = "bearish" => sgCall.signal.signal_type = "SELL"

----------------------------------------------------------------------------
(***************************************************************************)
(* SpecRisk: the counters of one RiskManager (positions_count, daily_pnl,  *)
(* daily_trades) under calls of its accessor methods.  Money is in cents.  *)
(* The constructor in effect is the second __init__ of the class (836):    *)
(* it does not create open_positions_by_symbol.                            *)
(***************************************************************************)

\* Cap on positions_count in the exploration
MaxPositionsCount == 5

\* Cap on daily_trades in the exploration
MaxDailyTrades == 3

\* RiskParameters.max_daily_loss, in percent of the balance
max_daily_loss == 4

\* No accessor has been called yet
NoRiskCall == [call |-> "none", raised |-> FALSE, allowed |-> TRUE, reason |-> "none",
               account_balance |-> 0, dispatched |-> FALSE]

\* A call that returns nothing
RiskCall(name) == [NoRiskCall EXCEPT !.call = name]

\* A call that ends in AttributeError: 'RiskManager' object has no attribute
\* 'open_positions_by_symbol'
RiskCallRaises(name) == [NoRiskCall EXCEPT !.call = name, !.raised = TRUE]

\* An attribute the constructor did not create; open holds the symbols
\* registered with an open position
NoAttribute == [exists |-> FALSE, open |-> {}]

\* RiskManager.__init__ (836-846)
InitRisk ==
    /\ rkState = [positions_count |-> 0, daily_pnl |-> 0, daily_trades |-> 0,
                  open_positions_by_symbol |-> NoAttribute,
                  consecutive_losses |-> [exists |-> FALSE, value |-> 0],
                  cooldown |-> [exists |-> FALSE, value |-> FALSE],
                  results |-> <<>>,
                  last |-> NoRiskCall]
    /\ SizerUnused /\ StopsUnused /\ LifeUnused /\ MonitorUnused /\ GuardUnused
    /\ BotUnused
    /\ PipelineUnused
    /\ ScanUnused
    /\ LoopUnused
    /\ ScorerUnused
    /\ VirtualUnused
    /\ ShrinkUnused

\* RiskManager.increment_positions
IncrementPositions ==
    /\ rkState.positions_count < MaxPositionsCount
    /\ rkState' = [rkState EXCEPT !.positions_count = @ + 1,
                                  !.last = RiskCall("increment_positions")]
    /\ UNCHANGED NotRisk

\* RiskManager.decrement_positions
DecrementPositions ==
    /\ rkState' = [rkState EXCEPT
           !.positions_count = IF @ > 0 THEN @ - 1 ELSE @,
           !.last = RiskCall("decrement_positions")]
    /\ UNCHANGED NotRisk

\* RiskManager.register_open_position: the read of open_positions_by_symbol
\* at line 172 raises before any counter changes
RegisterOpenPosition ==
    /\ rkState' = [rkState EXCEPT !.last = RiskCallRaises("register_open_position")]
    /\ UNCHANGED NotRisk

\* RiskManager.register_close_position: the read at line 184 raises
RegisterClosePosition ==
    /\ rkState' = [rkState EXCEPT !.last = RiskCallRaises("register_close_position")]
    /\ UNCHANGED NotRisk

\* Number of results passed to register_trade_result in one run
MaxResults == 3

\* RiskManager.register_trade_result: the attributes it reads are created only
\* by its own WIN/BE branch, and cooldown_loss_limit by nothing; results
\* records the arguments passed since construction
register_trade_result(state, result) ==
    LET passed == [state EXCEPT !.results = Append(@, result)] IN
    IF result = "LOSS"
    THEN IF ~state.consecutive_losses.exists
         THEN [passed EXCEPT !.last = RiskCallRaises("register_trade_result")]
         ELSE [passed EXCEPT !.consecutive_losses.value = @ + 1,
                             !.last = RiskCallRaises("register_trade_result")]
    ELSE IF result \in {"WIN", "BE"}
    THEN [passed EXCEPT !.consecutive_losses = [exists |-> TRUE, value |-> 0],
                        !.cooldown = [exists |-> TRUE, value |-> FALSE],
                        !.last = RiskCall("register_trade_result")]
    ELSE [passed EXCEPT !.last = RiskCall("register_trade_result")]

RegisterTradeResult ==
    /\ Len(rkState.results) < MaxResults
    /\ \E result \in {"LOSS", "WIN", "BE"} :
           rkState' = register_trade_result(rkState, result)
    /\ UNCHANGED NotRisk

\* RiskManager.can_trade
CanTrade ==
    /\ rkState' = [rkState EXCEPT !.last =
           IF ~rkState.cooldown.exists
           THEN RiskCallRaises("can_trade")
           ELSE [RiskCall("can_trade") EXCEPT !.allowed = ~rkState.cooldown.value]]
    /\ UNCHANGED NotRisk

\* RiskManager.update_daily_pnl
UpdateDailyPnl ==
    /\ rkState.daily_trades < MaxDailyTrades
    /\ \E pnl \in {-25000, -15000, 10000} :
           rkState' = [rkState EXCEPT !.daily_pnl = @ + pnl,
                                      !.daily_trades = @ + 1,
                                      !.last = RiskCall("update_daily_pnl")]
    /\ UNCHANGED NotRisk

\* RiskManager.reset_daily_stats
ResetDailyStats ==
    /\ rkState' = [rkState EXCEPT !.daily_pnl = 0, !.daily_trades = 0,
                                  !.last = RiskCall("reset_daily_stats")]
    /\ UNCHANGED NotRisk

\* An admission check that looks at the daily loss only
is_trading_allowed_loss_only(positions_count, daily_pnl, account_balance) ==
    IF daily_pnl < 0 /\ account_balance = 0
    THEN [allowed |-> FALSE, reason |-> "Error checking trading status"]
    ELSE IF daily_pnl < 0 /\ Abs(daily_pnl) * 100 >= max_daily_loss * account_balance
    THEN [allowed |-> FALSE, reason |-> "Daily loss limit reached"]
    ELSE [allowed |-> TRUE, reason |-> "Trading allowed"]

\* RiskManager.is_trading_allowed: the division by a zero balance raises
\* ZeroDivisionError, which the except clause turns into a refusal
is_trading_allowed(positions_count, daily_pnl, account_balance) ==
    IF daily_pnl < 0 /\ account_balance = 0
    THEN [allowed |-> FALSE, reason |-> "Error checking trading status"]
    ELSE IF daily_pnl < 0 /\ Abs(daily_pnl) * 100 >= max_daily_loss * account_balance
    THEN [allowed |-> FALSE, reason |-> "Daily loss limit reached"]
    ELSE IF max_open_positions > 0 /\ positions_count >= max_open_positions
    THEN [allowed |-> FALSE, reason |-> "Maximum positions limit reached"]
    ELSE [allowed |-> TRUE, reason |-> "Trading allowed"]

\* One call of is_trading_allowed, with a balance of 10000 USD or of 0
IsTradingAllowed ==
    /\ \E account_balance \in {1000000, 0} :
           LET r == is_trading_allowed(rkState.positions_count, rkState.daily_pnl,
                                       account_balance)
           IN  rkState' = [rkState EXCEPT
                   !.last = [call |-> "is_trading_allowed", raised |-> FALSE,
                             allowed |-> r.allowed, reason |-> r.reason,
                             account_balance |-> account_balance,
                             dispatched |-> FALSE]]
    /\ UNCHANGED NotRisk

\* MrCashondoBot.process_signal on a fresh EURUSD signal of confidence 0.9
\* while the bot's RiskManager holds these counters: the broker fills the
\* order it is sent.  dispatched tells whether send_order was called.
ProcessSignalWithRiskState ==
    /\ \E account_balance \in {1000000, 2000} :
           LET r == process_signal(TradingSignal(ScanKeys[1], 90, ScanNow), "done",
                                   ScanNow,
                                   [balance |-> account_balance,
                                    margin_free |-> account_balance, terminal |-> "ok"],
                                   <<>>, <<>>, <<>>, FALSE)
           IN  rkState' = [rkState EXCEPT
                   !.last = [NoRiskCall EXCEPT
                                !.call = "process_signal",
                                !.account_balance = account_balance,
                                !.dispatched = r.broker # <<>>]]
    /\ UNCHANGED NotRisk

NextRisk ==
    \/ IncrementPositions
    \/ DecrementPositions
    \/ RegisterOpenPosition
    \/ RegisterClosePosition
    \/ UpdateDailyPnl
    \/ ResetDailyStats
    \/ IsTradingAllowed
    \/ ProcessSignalWithRiskState
    \/ RegisterTradeResult
    \/ CanTrade

SpecRisk == InitRisk /\ [][NextRisk]_vars

\* C29: under any sequence of accessor calls positions_count is never
\* negative and never above max_open_positions.
C29_PositionsCountWithinBounds ==
    /\ 0 <= rkState.positions_count
    /\ rkState.positions_count <= max_open_positions

\* positions_count has reached max_open_positions
MaxPositionsReached == rkState.positions_count >= max_open_positions

\* The day's loss is at least max_daily_loss of the balance passed in
DailyLossReached ==
    /\ rkState.daily_pnl < 0
    /\ Abs(rkState.daily_pnl) * 100 >= max_daily_loss * rkState.last.account_balance

\* C30 as stated: is_trading_allowed refuses with a reason naming the
\* maximum positions limit whenever positions_count has reached
\* max_open_positions, and with a reason naming the daily loss limit
\* whenever the day's loss is at least max_daily_loss of the balance.
C30_RefusalNamesEachLimit ==
    rkState.last.call = "is_trading_allowed" =>
        /\ MaxPositionsReached =>
               /\ ~rkState.last.allowed
               /\ rkState.last.reason = "Maximum positions limit reached"
        /\ DailyLossReached =>
               /\ ~rkState.last.allowed
               /\ rkState.last.reason = "Daily loss limit reached"

\* C30 amended: is_trading_allowed refuses whenever either limit is
\* reached; the reason names the daily loss limit when that limit is reached
\* on a positive balance, and the maximum positions limit when only the
\* position limit is reached.
C30_RefusalNamesFirstLimit ==
    rkState.last.call = "is_trading_allowed" =>
        /\ (MaxPositionsReached \/ DailyLossReached) => ~rkState.last.allowed
        /\ (DailyLossReached /\ rkState.last.account_balance > 0) =>
               rkState.last.reason = "Daily loss limit reached"
        /\ (MaxPositionsReached /\ ~DailyLossReached) =>
               rkState.last.reason = "Maximum positions limit reached"

\* Both limits reached on a balance of 10000 USD: refused for the daily loss
C30_Witness ==
    /\ rkState.last.call = "is_trading_allowed"
    /\ MaxPositionsReached
    /\ DailyLossReached
    /\ rkState.last.account_balance > 0
    /\ ~rkState.last.allowed
    /\ rkState.last.reason = "Daily loss limit reached"

\* C36: once the day's accumulated loss has reached max_daily_loss of the
\* account balance, process_signal dispatches no order until the daily
\* statistics are reset.
C36_NoOrderAfterDailyLossLimit ==
    (rkState.last.call = "process_signal" /\ DailyLossReached) =>
        ~rkState.last.dispatched

\* C37: after any sequence of register_open_position and
\* register_close_position calls, each call has returned and positions_count
\* equals the number of symbols registered as having an open position.
C37_CountMatchesRegisteredSymbols ==
    rkState.last.call \in {"register_open_position", "register_close_position"} =>
        /\ ~rkState.last.raised
        /\ rkState.positions_count = Cardinality(rkState.open_positions_by_symbol.open)

\* The last n results passed to register_trade_result are all LOSS
EndsWithLosses(n) ==
    /\ Len(rkState.results) >= n
    /\ \A i \in (Len(rkState.results) - n + 1)..Len(rkState.results) :
           rkState.results[i] = "LOSS"

\* C38: can_trade() returns False after two consecutive LOSS results and True
\* once the latest result is a WIN or a BE.
C38_CooldownAfterTwoLosses ==
    (rkState.last.call = "can_trade" /\ rkState.results # <<>>) =>
        /\ EndsWithLosses(2) =>
               ~rkState.last.raised /\ ~rkState.last.allowed
        /\ rkState.results[Len(rkState.results)] \in {"WIN", "BE"} =>
               ~rkState.last.raised /\ rkState.last.allowed

\* ---------------------------------------------------------------------------
\* VirtualTrade (signal_generator.py): the simulated life of a signal that was
\* not executed. Prices are in points, timestamps in ticks of the caller.
\* ---------------------------------------------------------------------------

\* Number of update calls on one virtual trade
MaxUpdates == 3

\* close_time and close_price before the trade closes
StillOpen == <<"none", 0>>

\* VirtualTrade.__init__
VirtualTrade(signal) ==
    [signal_type |-> signal.signal_type, entry_price |-> signal.entry_price,
     stop_loss |-> signal.stop_loss, take_profit |-> signal.take_profit,
     close_time |-> StillOpen, close_price |-> StillOpen, result |-> "None",
     history |-> <<>>]

\* A trade closed by the level it reached
ClosedAt(trade, result, timestamp, level) ==
    [trade EXCEPT !.result = result, !.close_time = <<"at", timestamp>>,
                  !.close_price = <<"at", level>>]

\* VirtualTrade.update without the early return of a closed trade
update_reopens_closed(vt, timestamp, price) ==
    LET trade == [vt EXCEPT !.history = Append(@, <<timestamp, price>>)] IN
    IF trade.signal_type = "BUY"
    THEN IF price >= trade.take_profit
         THEN ClosedAt(trade, "TP", timestamp, trade.take_profit)
         ELSE IF price <= trade.stop_loss
         THEN ClosedAt(trade, "SL", timestamp, trade.stop_loss)
         ELSE trade
    ELSE IF price <= trade.take_profit
         THEN ClosedAt(trade, "TP", timestamp, trade.take_profit)
         ELSE IF price >= trade.stop_loss
         THEN ClosedAt(trade, "SL", timestamp, trade.stop_loss)
         ELSE trade

\* VirtualTrade.update
update(vt, timestamp, price) ==
    LET trade == [vt EXCEPT !.history = Append(@, <<timestamp, price>>)] IN
    IF trade.result # "None"
    THEN trade
    ELSE IF trade.signal_type = "BUY"
    THEN IF price >= trade.take_profit
         THEN ClosedAt(trade, "TP", timestamp, trade.take_profit)
         ELSE IF price <= trade.stop_loss
         THEN ClosedAt(trade, "SL", timestamp, trade.stop_loss)
         ELSE trade
    ELSE IF price <= trade.take_profit
         THEN ClosedAt(trade, "TP", timestamp, trade.take_profit)
         ELSE IF price >= trade.stop_loss
         THEN ClosedAt(trade, "SL", timestamp, trade.stop_loss)
         ELSE trade

\* VirtualTrade.is_closed
is_closed(trade) == trade.result \in {"TP", "SL"}

\* Signals a virtual trade is built from: a buy and a sell around 100
VirtualSignals ==
    {[signal_type |-> "BUY", entry_price |-> 100, stop_loss |-> 95, take_profit |-> 110],
     [signal_type |-> "SELL", entry_price |-> 100, stop_loss |-> 105, take_profit |-> 90]}

\* Prices fed to update: beyond, at and between the two levels
VirtualPrices == {89, 90, 95, 100, 105, 110}

InitVirtual ==
    /\ \E signal \in VirtualSignals : vtTrade = VirtualTrade(signal)
    /\ SizerUnused /\ StopsUnused /\ LifeUnused /\ MonitorUnused /\ GuardUnused
    /\ BotUnused
    /\ PipelineUnused
    /\ ScanUnused
    /\ LoopUnused
    /\ ScorerUnused
    /\ RiskUnused
    /\ ShrinkUnused

\* One call of update by the simulation, with the next timestamp
Update ==
    /\ Len(vtTrade.history) < MaxUpdates
    /\ \E price \in VirtualPrices :
           vtTrade' = update(vtTrade, Len(vtTrade.history) + 1, price)
    /\ UNCHANGED NotVirtual

NextVirtual == Update

SpecVirtual == InitVirtual /\ [][NextVirtual]_vars

\* C39: once the result of a virtual trade is TP or SL, a later update leaves
\* result, close_time and close_price as they are; only the history grows, by
\* one entry at its end.
C39_ClosedTradeIsFrozen ==
    [][is_closed(vtTrade) =>
          /\ vtTrade'.result = vtTrade.result
          /\ vtTrade'.close_time = vtTrade.close_time
          /\ vtTrade'.close_price = vtTrade.close_price
          /\ Len(vtTrade'.history) = Len(vtTrade.history) + 1
          /\ SubSeq(vtTrade'.history, 1, Len(vtTrade.history)) = vtTrade.history]_vars

\* A buy closed at its take profit has since been updated with a price at
\* or below its stop loss
C39_Witness ==
    /\ vtTrade.signal_type = "BUY"
    /\ vtTrade.result = "TP"
    /\ LET last == vtTrade.history[Len(vtTrade.history)] IN
           /\ last[1] > vtTrade.close_time[2]
           /\ last[2] <= vtTrade.stop_loss

\* ---------------------------------------------------------------------------
\* The volume-shrink loop of process_signal (main.py 1032-1053), one turn of
\* the while per step. Volumes in centilots, money in cents.
\* ---------------------------------------------------------------------------

\* Symbol specs as get_symbol_info hands them on from the terminal, unchecked:
\* a minimum volume of 0, 0.01 or 0.1 lots and a volume step of 0, 0.01 or
\* 0.1 lots; signals with a stop 1 or 5 pips away on accounts from 20 to
\* 10000 USD
ShrinkInputs ==
    { [ mode |-> m, symbol |-> s, entry_price |-> GuardEntry(s),
        stop_loss |-> GuardEntry(s) - d,
        symbol_info |-> SymbolInfo(s, mv, vs, 0),
        account_info |-> [balance |-> b, margin_free |-> b] ] :
        m \in RiskModes, s \in {"EURUSD", "XAUUSD"}, d \in {10, 50},
        mv \in {0, 1, 10}, vs \in {0, 1, 10}, b \in {2000, 50000, 1000000} }

InitShrink ==
    /\ \E in \in ShrinkInputs :
           shLoop = [in |-> in, pc |-> "sized", test_volume |-> 0,
                     margin_required |-> 0, exposure_limit |-> 0,
                     can_execute |-> FALSE]
    /\ SizerUnused /\ StopsUnused /\ LifeUnused /\ MonitorUnused /\ GuardUnused
    /\ BotUnused
    /\ PipelineUnused
    /\ ScanUnused
    /\ LoopUnused
    /\ ScorerUnused
    /\ RiskUnused
    /\ VirtualUnused

\* Lines 990-1043: the position size, the exposure limit, the first test
\* volume and its margin
EnterShrinkLoop ==
    /\ shLoop.pc = "sized"
    /\ LET in == shLoop.in
           position_size == pipeline_position_size(in.mode, in.symbol, in.entry_price,
                                in.stop_loss, in.symbol_info, in.account_info)
           tv == Min(position_size.volume, in.symbol_info.max_volume)
       IN  shLoop' = [shLoop EXCEPT
               !.pc = "while",
               !.exposure_limit = calculate_dynamic_exposure_limit(
                                      in.account_info.margin_free, in.symbol),
               !.test_volume = tv,
               !.margin_required = calculate_margin_buffer(tv, in.symbol_info,
                                       in.entry_price, in.symbol)]
    /\ UNCHANGED NotShrink

\* The condition of the while at line 1044
ShrinkCondition ==
    /\ shLoop.margin_required > shLoop.exposure_limit
    /\ shLoop.test_volume > shLoop.in.symbol_info.min_volume

\* One turn of the while (1045-1052)
ShrinkStep ==
    /\ shLoop.pc = "while"
    /\ ShrinkCondition
    /\ LET in == shLoop.in
           tv == Max(shLoop.test_volume - in.symbol_info.volume_step,
                     in.symbol_info.min_volume)
       IN  shLoop' = [shLoop EXCEPT
               !.test_volume = tv,
               !.margin_required = calculate_margin_buffer(tv, in.symbol_info,
                                       in.entry_price, in.symbol)]
    /\ UNCHANGED NotShrink

\* The while ends and can_execute is computed (1053)
ExitShrinkLoop ==
    /\ shLoop.pc = "while"
    /\ ~ShrinkCondition
    /\ shLoop' = [shLoop EXCEPT
           !.pc = "exit",
           !.can_execute = can_execute(shLoop.test_volume, shLoop.in.symbol_info,
                                       shLoop.margin_required, shLoop.exposure_limit)]
    /\ UNCHANGED NotShrink

NextShrink ==
    \/ EnterShrinkLoop
    \/ ShrinkStep
    \/ ExitShrinkLoop

\* The thread of process_signal keeps running: a step that can change the
\* state is eventually taken
SpecShrink == InitShrink /\ [][NextShrink]_vars /\ WF_vars(NextShrink)

\* C40: the volume-shrink loop ends for every symbol spec, and when it has
\* ended the test volume is not below min_volume.
C40_ShrinkLoopTerminates ==
    /\ <>(shLoop.pc = "exit")
    /\ [](shLoop.pc = "exit" =>
             shLoop.test_volume >= shLoop.in.symbol_info.min_volume)
====
